---- MODULE Spec2Model ----
(***************************************************************************)
(* Crawl-and-interact engine of the funnel audit service.                  *)
(*                                                                         *)
(*   services/crawler_service.py   CrawlerService  (crawl loop, robots)    *)
(*   services/webdriver_service.py WebDriverManager, InteractionTester     *)
(*   tasks/audit_tasks.py          run_comprehensive_audit, retry sweeps   *)
(*                                                                         *)
(* Specifications:                                                         *)
(*   Spec        one crawl_website invocation on one CrawlerService        *)
(*   SpecTwin    two crawl_website invocations driven by the same site     *)
(*               behaviour, whose robots.txt answers may differ            *)
(*   SpecRobots  repeated _check_robots_txt queries on one CrawlerService  *)
(*   SpecPool    concurrent probes sharing one WebDriverManager            *)
(*   SpecFair    Spec under a fair event loop                              *)
(*   SpecShutdown  SpecPool with the Playwright browser launched           *)
(*   SpecStatus  Spec on a site whose pages answer with any HTTP status    *)
(*   SpecScan    one _check_robots_txt query on a robots.txt given as text *)
(*   SpecButtons, SpecForms, SpecNavigation   one run of a probe body      *)
(*   SpecClassify, SpecErrors, SpecAnalysis   the page analysis            *)
(*   SpecExtract   the buttons list of the page analysis                   *)
(*   SpecKeywords  the URL rules on one URL per keyword                    *)
(*   SpecPoolFair  the probes of SpecPool, each ending and each polling    *)
(*   SpecSanitize  SpecPool with what the sessions carry per origin        *)
(*   SpecEstimate  the clicks-to-convert estimate of the navigation probe  *)
(*   SpecShared    two crawl_website invocations on one CrawlerService     *)
(*   SpecRetry     tasks/audit_tasks.py: audit runs and retry sweeps       *)
(***************************************************************************)
EXTENDS Integers, Sequences, FiniteSets, TLC

VARIABLES
    engines,        \* CrawlerService instances: max_pages, robots_cache
    crawls,         \* crawl_website invocations: locals and position
    robots_log,     \* history of _check_robots_txt calls (observation only)
    manager,        \* WebDriverManager: max_drivers, driver_pool, available_drivers
    live,           \* browser sessions created and still running
    probes,         \* InteractionTester calls: position and borrowed session
    torn_down,      \* sessions close_all has torn down (observation only)
    playwright,     \* the Playwright browser: running, and close() calls made
    browsing,       \* per session: the origin shown and the origins holding state
    button_test,    \* one run of the body of test_all_buttons
    form_test,      \* one run of _test_form_submission
    nav_test,       \* one run of the body of test_navigation_flow
    analysis,       \* runs of the page analysis of _crawl_page
    audits          \* the audits table, the task queue and the retry sweeps

crawlVars == <<engines, crawls, robots_log>>
poolVars == <<manager, live, probes, torn_down, playwright, browsing>>
testVars == <<button_test, form_test, nav_test, analysis>>
taskVars == <<audits>>
vars == <<engines, crawls, robots_log, manager, live, probes, torn_down,
          playwright, browsing,
          button_test, form_test, nav_test, analysis, audits>>

----------------------------------------------------------------------------
(* Bounds of the model *)

\* largest max_pages a CrawlerService is constructed with
MaxPages == 3
\* largest number of <a href> values found on one page
MaxLinks == 2
\* largest number of lines of a robots.txt body
MaxRobotsLines == 2

----------------------------------------------------------------------------
(* URLs.  A URL string is modelled by the components urlparse splits it    *)
(* into; two URL strings are equal iff all components are equal.           *)

Url(scheme, netloc, path) == [scheme |-> scheme, netloc |-> netloc, path |-> path]

NoUrl == Url("", "", "")

\* urlparse(url).netloc
Netloc(url) == url.netloc

\* domain = f"{parsed_url.scheme}://{parsed_url.netloc}"
DomainOf(url) == Url(url.scheme, url.netloc, "")

StartUrls == {Url("http", "a.com", "/")}

(* href attribute values as they stand in the document: an absolute URL,   *)
(* an absolute-path reference, a network-path reference ("//host/path"),   *)
(* or a string urlsplit rejects with ValueError ("http://[").              *)
AbsHref(scheme, netloc, path) ==
    [kind |-> "abs", scheme |-> scheme, netloc |-> netloc, path |-> path]
RelHref(path) == [kind |-> "rel", scheme |-> "", netloc |-> "", path |-> path]
NetHref(netloc, path) ==
    [kind |-> "net", scheme |-> "", netloc |-> netloc, path |-> path]
BadHref == [kind |-> "bad", scheme |-> "", netloc |-> "", path |-> ""]

Hrefs ==
    { RelHref("/a"),
      AbsHref("https", "a.com", "/"),
      NetHref("a.com:8080", "/"),
      BadHref }

\* urljoin raises ValueError on this href
urljoin_raises(href) == href.kind = "bad"

\* urljoin(base, href) for an href it accepts
urljoin(base, href) ==
    CASE href.kind = "abs" -> Url(href.scheme, href.netloc, href.path)
      [] href.kind = "net" -> Url(base.scheme, href.netloc, href.path)
      [] OTHER             -> Url(base.scheme, base.netloc, href.path)

\* a comparison of whole URL prefixes instead of parsed network locations
is_same_domain_by_prefix(url, domain) ==
    url.scheme = domain.scheme /\ url.netloc = domain.netloc

\* CrawlerService._is_same_domain
is_same_domain(url, domain) == Netloc(url) = Netloc(domain)

Range(s) == {s[i] : i \in DOMAIN s}

SeqsUpTo(S, n) == UNION {[1..k -> S] : k \in 0..n}

----------------------------------------------------------------------------
(* Strings: the str methods the services use, on TLA+ strings *)

Capitals == "ABCDEFGHIJKLMNOPQRSTUVWXYZ"
Smalls == "abcdefghijklmnopqrstuvwxyz"

LowerChar(ch) ==
    IF \E i \in 1..Len(Capitals) : SubSeq(Capitals, i, i) = ch
    THEN LET i == CHOOSE k \in 1..Len(Capitals) : SubSeq(Capitals, k, k) = ch
         IN  SubSeq(Smalls, i, i)
    ELSE ch

\* str.lower()
RECURSIVE Lower(_)
Lower(text) ==
    IF text = "" THEN ""
    ELSE LowerChar(SubSeq(text, 1, 1)) \o Lower(SubSeq(text, 2, Len(text)))

\* keyword in text
Contains(text, keyword) ==
    \E i \in 1..(Len(text) - Len(keyword) + 1) :
        SubSeq(text, i, i + Len(keyword) - 1) = keyword

\* any(keyword in text for keyword in keywords)
AnyIn(text, keywords) == \E keyword \in keywords : Contains(text, keyword)

\* str.strip(), for blanks
RECURSIVE Strip(_)
Strip(text) ==
    IF text = "" THEN ""
    ELSE IF SubSeq(text, 1, 1) = " " THEN Strip(SubSeq(text, 2, Len(text)))
    ELSE IF SubSeq(text, Len(text), Len(text)) = " "
    THEN Strip(SubSeq(text, 1, Len(text) - 1))
    ELSE text

\* text.startswith(prefix)
StartsWith(text, prefix) ==
    Len(text) >= Len(prefix) /\ SubSeq(text, 1, Len(prefix)) = prefix

\* text.split(':', 1)[1] for a text that holds a colon
AfterColon(text) ==
    LET i == CHOOSE k \in 1..Len(text) :
                 SubSeq(text, k, k) = ":" /\ \A j \in 1..(k - 1) : SubSeq(text, j, j) # ":"
    IN  SubSeq(text, i + 1, Len(text))

----------------------------------------------------------------------------
(* robots.txt *)

\* a line after strip().lower(): user-agent:<agent>, disallow:<path>, other
UALine(agent) == [kind |-> "user-agent", value |-> agent]
DisLine(path) == [kind |-> "disallow", value |-> path]
OtherLine == [kind |-> "other", value |-> ""]

RobotsLines ==
    { UALine("*"), UALine("funnelbot"), UALine("googlebot"),
      DisLine("/"), DisLine("/private"), DisLine(""), OtherLine }

\* 'funnel' in user_agent
ContainsFunnel(agent) == Contains(agent, "funnel")

(* line = line.strip().lower() and the two startswith tests: the line as   *)
(* the scan sees it                                                        *)
parse_robots_line(raw) ==
    LET line == Lower(Strip(raw)) IN
    IF StartsWith(line, "user-agent:") THEN UALine(Strip(AfterColon(line)))
    ELSE IF StartsWith(line, "disallow:") THEN DisLine(Strip(AfterColon(line)))
    ELSE OtherLine

\* robots_content.split('\n'), line by line
ParseBody(raw_lines) == [i \in DOMAIN raw_lines |-> parse_robots_line(raw_lines[i])]

\* a scan in which an applicable user-agent line stays in force for good
RECURSIVE ScanRobotsSticky(_, _, _, _)
ScanRobotsSticky(body, i, user_agent_found, disallow_all) ==
    IF i > Len(body) THEN disallow_all
    ELSE LET line == body[i] IN
         IF line.kind = "user-agent"
         THEN ScanRobotsSticky(body, i + 1,
                  user_agent_found \/ line.value = "*" \/ ContainsFunnel(line.value),
                  disallow_all)
         ELSE IF line.kind = "disallow" /\ user_agent_found
         THEN ScanRobotsSticky(body, i + 1, user_agent_found,
                               disallow_all \/ line.value = "/")
         ELSE ScanRobotsSticky(body, i + 1, user_agent_found, disallow_all)

\* the line scan of _check_robots_txt: the final value of disallow_all
RECURSIVE ScanRobots(_, _, _, _)
ScanRobots(body, i, user_agent_found, disallow_all) ==
    IF i > Len(body) THEN disallow_all
    ELSE LET line == body[i] IN
         IF line.kind = "user-agent"
         THEN ScanRobots(body, i + 1,
                         line.value = "*" \/ ContainsFunnel(line.value),
                         disallow_all)
         ELSE IF line.kind = "disallow" /\ user_agent_found
         THEN ScanRobots(body, i + 1, user_agent_found,
                         disallow_all \/ line.value = "/")
         ELSE ScanRobots(body, i + 1, user_agent_found, disallow_all)

\* what self.session.get(robots_url) does: raise, or answer status and body
RobotsResponse(raises, status, body) ==
    [raises |-> raises, status |-> status, body |-> body]

RobotsResponses ==
    { RobotsResponse(TRUE, 0, <<>>) }
    \cup { RobotsResponse(FALSE, s, <<>>) : s \in {404, 500} }
    \cup { RobotsResponse(FALSE, 200, b) : b \in SeqsUpTo(RobotsLines, MaxRobotsLines) }

\* the fetch raised, or answered a status other than 200
FetchFailed(resp) == resp.raises \/ resp.status # 200

CachePut(cache, domain, allowed) ==
    [d \in DOMAIN cache \cup {domain} |->
        IF d = domain THEN allowed ELSE cache[d]]

\* a fail-closed default for an inaccessible robots.txt
robots_default_denied == FALSE

\* the default when robots.txt is not accessible
robots_default == TRUE

\* a robots check that fetches and parses on every query
check_robots_txt_refetch(cache, domain, resp) ==
    IF ~resp.raises /\ resp.status = 200
    THEN LET allowed == ~ScanRobots(resp.body, 1, FALSE, FALSE)
         IN  [allowed |-> allowed,
              cache |-> CachePut(cache, domain, allowed),
              fetched |-> TRUE]
    ELSE [allowed |-> robots_default,
          cache |-> CachePut(cache, domain, robots_default),
          fetched |-> TRUE]

(* CrawlerService._check_robots_txt: the value returned, the cache after   *)
(* the call and whether a fetch was issued.                                *)
check_robots_txt(cache, domain, resp) ==
    IF domain \in DOMAIN cache
    THEN [allowed |-> cache[domain], cache |-> cache, fetched |-> FALSE]
    ELSE IF ~resp.raises /\ resp.status = 200
    THEN LET allowed == ~ScanRobots(resp.body, 1, FALSE, FALSE)
         IN  [allowed |-> allowed,
              cache |-> CachePut(cache, domain, allowed),
              fetched |-> TRUE]
    ELSE [allowed |-> robots_default,
          cache |-> CachePut(cache, domain, robots_default),
          fetched |-> TRUE]

----------------------------------------------------------------------------
(* crawl_website: one invocation is a record of its locals and position.   *)
(* An entry of pages stands for the PageInfo by its url field, the only    *)
(* field crawl_website reads from the list, and status_codes holds the     *)
(* status_code field of the same entries; the locals                       *)
(* current_url and page_info are cleared once the iteration no longer      *)
(* reads them.  fetched, discovered, delays and failures are observation   *)
(* only: the URLs _crawl_page was called on, the start URL and every link  *)
(* resolved, the sleeps done and the exceptions the handler caught.        *)

\* the PageInfo of a response that answered 200
PageInfo(url, links) == [url |-> url, links |-> links, status_code |-> 200]
NoPage == PageInfo(NoUrl, <<>>)

NoSiteMap ==
    [returned |-> FALSE, pages |-> <<>>, broken_links |-> <<>>,
     external_links |-> <<>>, total_pages |-> 0]

\* crawl_website up to the robots check
NewCrawl(engine, start_url) ==
    [engine |-> engine, pc |-> "robots",
     start_url |-> start_url, domain |-> DomainOf(start_url),
     robots_allowed |-> TRUE,
     to_crawl |-> {}, crawled |-> {}, pages |-> <<>>, status_codes |-> <<>>,
     broken_links |-> <<>>, external_links |-> <<>>,
     current_url |-> NoUrl, page_info |-> NoPage,
     fetched |-> {}, discovered |-> {start_url}, delays |-> 0, failures |-> 0,
     sitemap |-> NoSiteMap]

\* a crawl that honours a disallow answer by starting with an empty frontier
AfterRobotsBlocking(c, allowed) ==
    [c EXCEPT !.pc = "loop", !.robots_allowed = allowed,
              !.to_crawl = IF allowed THEN {c.start_url} ELSE {}]

\* robots_allowed = await self._check_robots_txt(domain); initialize crawl state
AfterRobots(c, allowed) ==
    [c EXCEPT !.pc = "loop", !.robots_allowed = allowed,
              !.to_crawl = {c.start_url}]

\* a loop test that lets the crawl run one page over the cap
LoopGuardInclusive(c, max_pages) ==
    c.to_crawl # {} /\ Cardinality(c.crawled) <= max_pages

\* while to_crawl and len(crawled) < self.max_pages
LoopGuard(c, max_pages) ==
    c.to_crawl # {} /\ Cardinality(c.crawled) < max_pages

\* a pop that leaves a URL already crawled in the frontier
PopStepKeepsSkipped(c, u) ==
    LET popped == [c EXCEPT !.to_crawl = c.to_crawl \ {u}] IN
    IF u \in c.crawled THEN c
    ELSE IF ~is_same_domain(u, c.domain)
    THEN [popped EXCEPT !.external_links = Append(c.external_links, u)]
    ELSE [popped EXCEPT !.pc = "fetch", !.current_url = u,
                        !.fetched = c.fetched \cup {u}]

\* a pop without the test that skips a URL already crawled
PopStepNoSkip(c, u) ==
    LET popped == [c EXCEPT !.to_crawl = c.to_crawl \ {u}] IN
    IF ~is_same_domain(u, c.domain)
    THEN [popped EXCEPT !.external_links = Append(c.external_links, u)]
    ELSE [popped EXCEPT !.pc = "fetch", !.current_url = u,
                        !.fetched = c.fetched \cup {u}]

\* current_url = to_crawl.pop(), the two skips, up to the fetch
PopStep(c, u) ==
    LET popped == [c EXCEPT !.to_crawl = c.to_crawl \ {u}] IN
    IF u \in c.crawled THEN popped
    ELSE IF ~is_same_domain(u, c.domain)
    THEN [popped EXCEPT !.external_links = Append(c.external_links, u)]
    ELSE [popped EXCEPT !.pc = "fetch", !.current_url = u,
                        !.fetched = c.fetched \cup {u}]

\* a crawl in which the exception of _crawl_page leaves crawl_website
FetchFailAborts(c) == [c EXCEPT !.pc = "aborted", !.current_url = NoUrl]

\* a handler that swallows the failure without recording the URL
FetchFailDropped(c) ==
    [c EXCEPT !.pc = "loop", !.current_url = NoUrl, !.failures = @ + 1]

\* _crawl_page raised: except Exception -> broken_links.append(current_url)
FetchFailStep(c) ==
    [c EXCEPT !.pc = "loop", !.current_url = NoUrl, !.failures = @ + 1,
              !.broken_links = Append(c.broken_links, c.current_url)]

\* page_info = await self._crawl_page(current_url)
FetchOkStep(c, links) ==
    [c EXCEPT !.pc = "append", !.page_info = PageInfo(c.current_url, links)]

\* an append that keeps the pages answered with a 2xx status only
AppendStepOnlyOk(c) ==
    IF c.page_info.status_code \in 200..299
    THEN [c EXCEPT !.pc = "mark", !.pages = Append(c.pages, c.page_info.url),
                   !.status_codes = Append(@, c.page_info.status_code)]
    ELSE [c EXCEPT !.pc = "mark"]

\* pages.append(page_info)
AppendStep(c) ==
    [c EXCEPT !.pc = "mark", !.pages = Append(c.pages, c.page_info.url),
              !.status_codes = Append(@, c.page_info.status_code)]

\* crawled.add(current_url)
MarkStep(c) ==
    [c EXCEPT !.pc = "route", !.crawled = c.crawled \cup {c.current_url}]

(* for link in page_info.links: resolve and route; a ValueError of urljoin *)
(* leaves the loop with the links routed so far and reaches the handler    *)
(* of the page: broken_links.append(current_url).                          *)
RECURSIVE RouteLinks(_, _)
RouteLinks(c, i) ==
    IF i > Len(c.page_info.links)
    THEN [c EXCEPT !.pc = "sleep", !.page_info = NoPage, !.current_url = NoUrl]
    ELSE LET link == c.page_info.links[i] IN
         IF urljoin_raises(link)
         THEN [c EXCEPT !.pc = "loop", !.page_info = NoPage,
                        !.current_url = NoUrl, !.failures = @ + 1,
                        !.broken_links = Append(c.broken_links, c.current_url)]
         ELSE LET absolute_link == urljoin(c.current_url, link)
                  seen == [c EXCEPT !.discovered = c.discovered \cup {absolute_link}]
              IN  IF is_same_domain(absolute_link, c.domain)
                  THEN RouteLinks([seen EXCEPT !.to_crawl =
                                      c.to_crawl \cup {absolute_link}], i + 1)
                  ELSE RouteLinks([seen EXCEPT !.external_links =
                                      Append(c.external_links, absolute_link)], i + 1)

RouteStep(c) == RouteLinks(c, 1)

(* the try block from the return of _crawl_page to the next await: no      *)
(* other coroutine runs in between                                         *)
PageStep(c, links) == RouteStep(MarkStep(AppendStep(FetchOkStep(c, links))))

(* the same try block for a response of any status: session.get returns   *)
(* the response whatever its status, and _crawl_page analyses its body     *)
ResponseStep(c, status, links) ==
    RouteStep(MarkStep(AppendStep(
        [FetchOkStep(c, links) EXCEPT !.page_info.status_code = status])))

\* await asyncio.sleep(self.delay)
SleepStep(c) == [c EXCEPT !.pc = "loop", !.delays = c.delays + 1]

\* crawl_stats and the SiteMap returned
ReturnStep(c) ==
    [c EXCEPT !.pc = "done",
              !.sitemap = [returned |-> TRUE, pages |-> c.pages,
                           broken_links |-> c.broken_links,
                           external_links |-> c.external_links,
                           total_pages |-> Len(c.pages)]]

MaxPagesOf(c) == engines[c.engine].max_pages

----------------------------------------------------------------------------
(* Actions of one crawl_website invocation r *)

(* the ClientSession of an invocation is named by the invocation: it is   *)
(* open from line 55 until crawl_website returns.  self.session = session  *)
(* and the robots check                                                    *)
CheckRobots(r, resp) ==
    LET c == crawls[r]
        res == check_robots_txt(engines[c.engine].robots_cache, c.domain, resp)
    IN  /\ c.pc = "robots"
        /\ crawls' = [crawls EXCEPT ![r] = AfterRobots(c, res.allowed)]
        /\ engines' = [engines EXCEPT ![c.engine].robots_cache = res.cache,
                                      ![c.engine].session = r]
        /\ robots_log' = Append(robots_log,
               [domain |-> c.domain, fetched |-> res.fetched,
                failed |-> FetchFailed(resp), allowed |-> res.allowed])
        /\ UNCHANGED <<poolVars, taskVars, testVars>>

Pop(r, u) ==
    /\ crawls[r].pc = "loop"
    /\ LoopGuard(crawls[r], MaxPagesOf(crawls[r]))
    /\ u \in crawls[r].to_crawl
    /\ crawls' = [crawls EXCEPT ![r] = PopStep(@, u)]
    /\ UNCHANGED <<engines, robots_log, poolVars, taskVars, testVars>>

FetchFail(r) ==
    /\ crawls[r].pc = "fetch"
    /\ crawls' = [crawls EXCEPT ![r] = FetchFailStep(@)]
    /\ UNCHANGED <<engines, robots_log, poolVars, taskVars, testVars>>

FetchOk(r, links) ==
    /\ crawls[r].pc = "fetch"
    /\ crawls' = [crawls EXCEPT ![r] = PageStep(@, links)]
    /\ UNCHANGED <<engines, robots_log, poolVars, taskVars, testVars>>

\* _crawl_page returns the record of a response with this status
FetchResponse(r, status, links) ==
    /\ crawls[r].pc = "fetch"
    /\ crawls' = [crawls EXCEPT ![r] = ResponseStep(@, status, links)]
    /\ UNCHANGED <<engines, robots_log, poolVars, taskVars, testVars>>

Sleep(r) ==
    /\ crawls[r].pc = "sleep"
    /\ crawls' = [crawls EXCEPT ![r] = SleepStep(@)]
    /\ UNCHANGED <<engines, robots_log, poolVars, taskVars, testVars>>

Return(r) ==
    /\ crawls[r].pc = "loop"
    /\ ~LoopGuard(crawls[r], MaxPagesOf(crawls[r]))
    /\ crawls' = [crawls EXCEPT ![r] = ReturnStep(@)]
    /\ UNCHANGED <<engines, robots_log, poolVars, taskVars, testVars>>

\* self.session = None
NoSession == 0

NewEngine(max_pages) ==
    [max_pages |-> max_pages, robots_cache |-> <<>>, session |-> NoSession]

----------------------------------------------------------------------------
(* WebDriverManager.  A session is named by a number, NoDriver stands for  *)
(* "no session"; a new session takes the least number that names no        *)
(* running session and nothing the manager or a probe still refers to.     *)
(* What the browser does is the environment: a call on a session that is   *)
(* no longer running raises, and a quit() that raises may or may not have  *)
(* ended the session.                                                      *)

\* largest max_drivers a WebDriverManager is constructed with
MaxDrivers == 2
\* number of concurrent InteractionTester calls
NumProbes == 3

NoDriver == 0

Last(s) == s[Len(s)]
Front(s) == SubSeq(s, 1, Len(s) - 1)

\* list.remove(d): drops the first occurrence of d
RemoveFirst(s, d) ==
    LET i == CHOOSE k \in 1..Len(s) : s[k] = d /\ \A j \in 1..(k - 1) : s[j] # d
    IN  SubSeq(s, 1, i - 1) \o SubSeq(s, i + 1, Len(s))

\* WebDriverManager.__init__
NewManager(max_drivers) ==
    [max_drivers |-> max_drivers, driver_pool |-> <<>>, available_drivers |-> <<>>,
     playwright_browser |-> FALSE]

\* if self.available_drivers
has_available(m) == m.available_drivers # <<>>

\* a pop that hands out the last idle session and leaves it in the list
take_available_keep(m) == m

\* self.available_drivers.pop(): the list after the pop (the last entry is returned)
take_available(m) == [m EXCEPT !.available_drivers = Front(@)]

\* a ceiling test that admits one session more
can_create_inclusive(m) == Len(m.driver_pool) <= m.max_drivers

\* if len(self.driver_pool) < self.max_drivers
can_create(m) == Len(m.driver_pool) < m.max_drivers

\* self.driver_pool.append(driver)
add_driver(m, d) == [m EXCEPT !.driver_pool = Append(@, d)]

\* WebDriverManager.close_driver: quit_ok tells whether driver.quit() returned
close_driver(m, d, quit_ok) ==
    IF quit_ok
    THEN [m EXCEPT
            !.driver_pool = IF d \in Range(@) THEN RemoveFirst(@, d) ELSE @,
            !.available_drivers = IF d \in Range(@) THEN RemoveFirst(@, d) ELSE @]
    ELSE m

(* WebDriverManager.release_driver: sanitized tells whether the three      *)
(* clearing calls all returned.                                            *)
release_driver(m, d, sanitized, quit_ok) ==
    IF sanitized
    THEN [m EXCEPT !.available_drivers = Append(@, d)]
    ELSE close_driver(m, d, quit_ok)

\* a shutdown that forgets the tracked sessions and keeps the idle list
close_all_keep_idle(m) == [m EXCEPT !.driver_pool = <<>>]

\* WebDriverManager.close_all, after the quit() of every tracked session
close_all(m) == [m EXCEPT !.driver_pool = <<>>, !.available_drivers = <<>>]

\* close_all calls with a Playwright browser recorded
MaxShutdowns == 2

\* no Playwright browser has been launched
NoPlaywright == [running |-> FALSE, close_calls |-> 0]

\* await self.playwright_browser.close(); await self.playwright.stop()
close_playwright(pw) == [running |-> FALSE, close_calls |-> pw.close_calls + 1]

\* quit() returns and the session is gone, or raises and it is gone or not
QuitOutcomes ==
    { [sanitized |-> FALSE, quit_ok |-> TRUE, survives |-> FALSE],
      [sanitized |-> FALSE, quit_ok |-> FALSE, survives |-> FALSE],
      [sanitized |-> FALSE, quit_ok |-> FALSE, survives |-> TRUE] }

\* the clearing calls all return (no quit), or one raises and quit() is tried
ReleaseOutcomes ==
    { [sanitized |-> TRUE, quit_ok |-> TRUE, survives |-> FALSE] } \cup QuitOutcomes

\* the sessions running after quit() was tried on d
LiveAfterQuit(d, quit_ok, survives) ==
    IF ~quit_ok /\ survives THEN live ELSE live \ {d}

----------------------------------------------------------------------------
(* InteractionTester: test_all_buttons, test_all_forms,                    *)
(* test_navigation_flow.  Each call is a record: its position, the session *)
(* it holds, and what happened to it (observation only: got, waited,       *)
(* raised, releases, propagated).  Between get_driver and the finally clause the body  *)
(* does not touch the manager; it completes, or it raises at one of its    *)
(* steps (navigation, readiness wait, element enumeration, per-element     *)
(* action), and every such raise reaches the same finally clause.          *)

ProbeKinds == <<"buttons", "forms", "navigation">>
KindOf(p) == ProbeKinds[((p - 1) % 3) + 1]

NewProbe(kind) ==
    [kind |-> kind, pc |-> "idle", driver |-> NoDriver, got |-> FALSE,
     waited |-> FALSE, raised |-> FALSE, releases |-> 0,
     propagated |-> FALSE]

\* driver = await self.driver_manager.get_driver() returned d
probe_got(pr, d) == [pr EXCEPT !.pc = "body", !.driver = d, !.got = TRUE]

\* a probe that hands its session back only when its body did not raise
probe_release_unless_raised(m, pr, raised, sanitized, quit_ok) ==
    IF raised
    THEN [manager |-> m,
          probe |-> [pr EXCEPT !.pc = "returned", !.raised = TRUE,
                               !.waited = FALSE]]
    ELSE [manager |-> release_driver(m, pr.driver, sanitized, quit_ok),
          probe |-> [pr EXCEPT !.pc = "returned", !.driver = NoDriver,
                               !.waited = FALSE, !.releases = @ + 1]]

(* try: ... except Exception: ... finally: release_driver(driver); return  *)
(* the manager and the call after the body ended, raising or not           *)
probe_finally(m, pr, raised, sanitized, quit_ok) ==
    [manager |-> release_driver(m, pr.driver, sanitized, quit_ok),
     probe |-> [pr EXCEPT !.pc = "returned", !.driver = NoDriver,
                          !.raised = raised, !.waited = FALSE,
                          !.releases = @ + 1]]

\* the calls are numbered in the order in which they start
MayStart(p) ==
    /\ probes[p].pc = "idle"
    /\ \A q \in DOMAIN probes : q < p => probes[q].pc # "idle"

(* the sessions of S something still refers to: a session in no list and  *)
(* in no probe's hands can never be returned by get_driver                 *)
Referenced(S, m, prs) ==
    S \cap (Range(m.driver_pool) \cup Range(m.available_drivers)
            \cup {prs[p].driver : p \in DOMAIN prs})

\* get_driver finds an idle session and returns it
AcquireIdle(p) ==
    /\ MayStart(p)
    /\ has_available(manager)
    /\ probes' = [probes EXCEPT ![p] = probe_got(@, Last(manager.available_drivers))]
    /\ manager' = take_available(manager)
    /\ UNCHANGED <<live, torn_down, playwright, browsing, crawlVars, testVars, taskVars>>

\* the session webdriver.Chrome(...) makes
NewDriver ==
    LET used == live \cup Referenced(1..NumProbes, manager, probes)
    IN  CHOOSE d \in 1..NumProbes : d \notin used /\ \A e \in 1..(d - 1) : e \in used

\* get_driver creates a session below the ceiling
AcquireCreate(p) ==
    /\ MayStart(p)
    /\ ~has_available(manager)
    /\ can_create(manager)
    /\ live' = live \cup {NewDriver}
    /\ manager' = add_driver(manager, NewDriver)
    /\ probes' = [probes EXCEPT ![p] = probe_got(@, NewDriver)]
    /\ UNCHANGED <<torn_down, playwright, browsing, crawlVars, testVars, taskVars>>

(* create_chrome_driver raises: get_driver raises at the first statement   *)
(* of the probe, outside its try block, and the call ends by raising       *)
AcquireCreateFails(p) ==
    /\ MayStart(p)
    /\ ~has_available(manager)
    /\ can_create(manager)
    /\ probes' = [probes EXCEPT ![p].pc = "returned", ![p].raised = TRUE,
                                ![p].propagated = TRUE]
    /\ UNCHANGED <<manager, live, torn_down, playwright, browsing, crawlVars, testVars, taskVars>>

\* get_driver at the ceiling with nothing idle: while not available: sleep
AcquireWait(p) ==
    /\ MayStart(p)
    /\ ~has_available(manager)
    /\ ~can_create(manager)
    /\ probes' = [probes EXCEPT ![p].pc = "waiting", ![p].waited = TRUE]
    /\ UNCHANGED <<manager, live, torn_down, playwright, browsing, crawlVars, testVars, taskVars>>

\* the polling loop sees an idle session and pops it
WakeUp(p) ==
    /\ probes[p].pc = "waiting"
    /\ has_available(manager)
    /\ probes' = [probes EXCEPT ![p] = probe_got(@, Last(manager.available_drivers))]
    /\ manager' = take_available(manager)
    /\ UNCHANGED <<live, torn_down, playwright, browsing, crawlVars, testVars, taskVars>>

(* the body ends, by completing or by raising at one of its steps, and the *)
(* finally clause runs release_driver                                      *)
FinallyRelease(p, raised, sanitized, quit_ok, survives) ==
    LET pr == probes[p]
        end == probe_finally(manager, pr, raised, sanitized, quit_ok)
    IN  /\ pr.pc = "body"
        /\ sanitized => pr.driver \in live
        /\ manager' = end.manager
        /\ probes' = [probes EXCEPT ![p] = end.probe]
        /\ live' = IF sanitized THEN live
                   ELSE LiveAfterQuit(pr.driver, quit_ok, survives)
        /\ torn_down' = Referenced(torn_down, manager', probes')
        /\ UNCHANGED <<playwright, crawlVars, testVars, taskVars>>

\* the end of a probe, whatever its session shows
ProbeReturn(p, raised, sanitized, quit_ok, survives) ==
    /\ FinallyRelease(p, raised, sanitized, quit_ok, survives)
    /\ UNCHANGED browsing

\* close_driver called on a tracked session from outside a probe
CloseDriver(d, quit_ok, survives) ==
    /\ d \in Range(manager.driver_pool)
    /\ manager' = close_driver(manager, d, quit_ok)
    /\ live' = LiveAfterQuit(d, quit_ok, survives)
    /\ torn_down' = Referenced(torn_down, manager', probes)
    /\ UNCHANGED <<probes, playwright, browsing, crawlVars, testVars, taskVars>>

(* close_all: quit() is tried on every tracked session; survivors are the  *)
(* sessions whose quit() raised and left the browser running               *)
CloseAll(survivors) ==
    LET tracked == Range(manager.driver_pool) IN
    /\ survivors \subseteq (tracked \cap live)
    /\ manager.playwright_browser => playwright.close_calls < MaxShutdowns
    /\ manager' = close_all(manager)
    /\ live' = (live \ tracked) \cup survivors
    /\ torn_down' = Referenced(torn_down \cup (tracked \ survivors),
                               manager', probes)
    /\ playwright' = IF manager.playwright_browser
                     THEN close_playwright(playwright) ELSE playwright
    /\ UNCHANGED <<probes, browsing, crawlVars, testVars, taskVars>>

(* initialize_playwright: when no browser is recorded, Playwright is       *)
(* started and Chromium launched; otherwise the recorded browser is        *)
(* returned and nothing changes                                            *)
InitializePlaywright ==
    /\ ~manager.playwright_browser
    /\ manager' = [manager EXCEPT !.playwright_browser = TRUE]
    /\ playwright' = [playwright EXCEPT !.running = TRUE]
    /\ UNCHANGED <<live, probes, torn_down, browsing, crawlVars, testVars, taskVars>>

TasksIdle == audits = <<>>

PoolIdle ==
    /\ manager = NewManager(0)
    /\ live = {}
    /\ probes = <<>>
    /\ torn_down = {}
    /\ playwright = NoPlaywright
    /\ browsing = <<>>

CrawlIdle ==
    /\ engines = <<>>
    /\ crawls = <<>>
    /\ robots_log = <<>>

TestIdle ==
    /\ button_test = <<>>
    /\ form_test = <<>>
    /\ nav_test = <<>>
    /\ analysis = <<>>

InitPool ==
    /\ manager \in {NewManager(n) : n \in 0..MaxDrivers}
    /\ live = {}
    /\ probes = [p \in 1..NumProbes |-> NewProbe(KindOf(p))]
    /\ torn_down = {}
    /\ playwright = NoPlaywright
    /\ browsing = <<>>
    /\ CrawlIdle
    /\ TestIdle
    /\ TasksIdle

NextPool ==
    \/ \E p \in DOMAIN probes : AcquireIdle(p)
    \/ \E p \in DOMAIN probes : AcquireCreate(p)
    \/ \E p \in DOMAIN probes : AcquireCreateFails(p)
    \/ \E p \in DOMAIN probes : AcquireWait(p)
    \/ \E p \in DOMAIN probes : WakeUp(p)
    \/ \E p \in DOMAIN probes, raised \in BOOLEAN, out \in ReleaseOutcomes :
          ProbeReturn(p, raised, out.sanitized, out.quit_ok, out.survives)
    \/ \E d \in Range(manager.driver_pool), out \in QuitOutcomes :
          CloseDriver(d, out.quit_ok, out.survives)
    \/ \E survivors \in SUBSET live : CloseAll(survivors)

SpecPool == InitPool /\ [][NextPool]_vars

(* the probes alone, nobody closing sessions from outside: every probe     *)
(* holding a session ends and runs release_driver, and the polling loop of *)
(* a suspended get_driver keeps running                                    *)
NextProbes ==
    \/ \E p \in DOMAIN probes : AcquireIdle(p)
    \/ \E p \in DOMAIN probes : AcquireCreate(p)
    \/ \E p \in DOMAIN probes : AcquireCreateFails(p)
    \/ \E p \in DOMAIN probes : AcquireWait(p)
    \/ \E p \in DOMAIN probes : WakeUp(p)
    \/ \E p \in DOMAIN probes, raised \in BOOLEAN, out \in ReleaseOutcomes :
          ProbeReturn(p, raised, out.sanitized, out.quit_ok, out.survives)

ProbeEnds(p) ==
    \E raised \in BOOLEAN, out \in ReleaseOutcomes :
        ProbeReturn(p, raised, out.sanitized, out.quit_ok, out.survives)

FairProbe(p) == WF_vars(ProbeEnds(p)) /\ WF_vars(WakeUp(p))

SpecPoolFair ==
    InitPool /\ [][NextProbes]_vars /\ \A p \in 1..NumProbes : FairProbe(p)

(* What a session carries.  Cookies, localStorage and sessionStorage are   *)
(* kept per origin; origin is the origin of the document the session       *)
(* shows, stored the origins whose cookies or storage hold data.           *)
Origins == {"shop.test", "pay.test"}

NoOrigin == "data:"

FreshBrowser == [origin |-> NoOrigin, stored |-> {}]

\* driver.get(url): the document of origin o is loaded and may store data
visit(b, o, stores) ==
    [origin |-> o, stored |-> IF stores THEN b.stored \cup {o} ELSE b.stored]

(* delete_all_cookies(), window.localStorage.clear() and                   *)
(* window.sessionStorage.clear() returned: they act on the document the    *)
(* session shows, so the data of its origin is gone                        *)
sanitize(b) == [b EXCEPT !.stored = @ \ {b.origin}]

\* the probe loads a page in its session: driver.get(url), or a click
Visit(p, o, stores) ==
    LET d == probes[p].driver IN
    /\ probes[p].pc = "body"
    /\ d \in live
    /\ browsing' = [browsing EXCEPT ![d] = visit(@, o, stores)]
    /\ UNCHANGED <<manager, live, probes, torn_down, playwright, crawlVars, testVars, taskVars>>

\* the session a discarded one leaves behind: gone, or still as it was
AfterDiscard(b, quit_ok) == IF quit_ok THEN FreshBrowser ELSE b

(* the finally clause of the probe: release_driver on the session as the   *)
(* probe left it                                                           *)
SanitizingReturn(p, raised, sanitized, quit_ok, survives) ==
    LET d == probes[p].driver IN
    /\ FinallyRelease(p, raised, sanitized, quit_ok, survives)
    /\ browsing' = [browsing EXCEPT ![d] = IF sanitized THEN sanitize(@)
                                           ELSE AfterDiscard(@, quit_ok)]

InitSanitize ==
    /\ manager \in {NewManager(n) : n \in 1..MaxDrivers}
    /\ live = {}
    /\ probes = [p \in 1..NumProbes |-> NewProbe(KindOf(p))]
    /\ torn_down = {}
    /\ playwright = NoPlaywright
    /\ browsing = [d \in 1..NumProbes |-> FreshBrowser]
    /\ CrawlIdle
    /\ TestIdle
    /\ TasksIdle

NextSanitize ==
    \/ \E p \in DOMAIN probes : AcquireIdle(p)
    \/ \E p \in DOMAIN probes : AcquireCreate(p)
    \/ \E p \in DOMAIN probes : AcquireWait(p)
    \/ \E p \in DOMAIN probes : WakeUp(p)
    \/ \E p \in DOMAIN probes, o \in Origins, stores \in BOOLEAN :
          Visit(p, o, stores)
    \/ \E p \in DOMAIN probes, raised \in BOOLEAN, out \in ReleaseOutcomes :
          SanitizingReturn(p, raised, out.sanitized, out.quit_ok, out.survives)

SpecSanitize == InitSanitize /\ [][NextSanitize]_vars

\* the pool of MaxDrivers sessions, with the Playwright browser in use
InitShutdown ==
    /\ InitPool
    /\ manager.max_drivers = MaxDrivers

NextShutdown ==
    \/ NextPool
    \/ InitializePlaywright

SpecShutdown == InitShutdown /\ [][NextShutdown]_vars

----------------------------------------------------------------------------
(* InteractionTester.test_all_buttons, the body between get_driver and the *)
(* finally clause, on the session the probe holds alone.  The browser is   *)
(* the environment: the page it shows (current_url, 0 or 1: a navigation   *)
(* flips it), whether a modal, popup, overlay or dialog element is         *)
(* displayed, which elements a selector finds, and which call raises.      *)

\* selectors of clickable_selectors the probe runs through
NumSelectors == 2
\* largest number of elements one selector finds
MaxElements == 2
\* elements[:10]
ElementLimit == 10

\* the step of a candidate's test at which the session raises
ButtonFaults ==
    {"none", "displayed", "text", "scroll", "url_before", "click", "url_after"}

\* what a click does to the page
ClickEffects == {"none", "navigate", "modal"}

NewButtonTest ==
    [pc |-> "open", selector |-> 1, index |-> 0, count |-> 0,
     current_url |-> 0, modal_displayed |-> FALSE,
     results |-> <<>>, met |-> <<>>, found |-> <<>>]

\* InteractionResult: error_message is modelled by whether it is set
InteractionResult(selector, success, error_message) ==
    [element_selector |-> selector, success |-> success,
     error_message |-> error_message]

\* the browser after the click took effect
AfterClick(b, effect) ==
    CASE effect = "navigate" ->
            [b EXCEPT !.current_url = 1 - @, !.modal_displayed = FALSE]
      [] effect = "modal" -> [b EXCEPT !.modal_displayed = TRUE]
      [] OTHER -> b

(* InteractionTester._test_button_click: the test after the call (browser  *)
(* state), whether the call raised, and the InteractionResult it returned. *)
(* A raise at element.text reaches the handler before element_text is      *)
(* bound, and the handler's own read of element_text raises                *)
(* UnboundLocalError out of the call.                                      *)
test_button_click(b, selector, fault, effect, modal_check_ok) ==
    IF fault = "text"
    THEN [test |-> b, raised |-> TRUE,
          result |-> InteractionResult(selector, FALSE, TRUE)]
    ELSE IF fault \in {"scroll", "url_before", "click"}
    THEN [test |-> b, raised |-> FALSE,
          result |-> InteractionResult(selector, FALSE, TRUE)]
    ELSE LET clicked == AfterClick(b, effect)
             original_url == b.current_url
             new_url == clicked.current_url
             url_changed == original_url # new_url
             modal_appeared == modal_check_ok /\ clicked.modal_displayed
             success == url_changed \/ modal_appeared
         IN  IF fault = "url_after"
             THEN [test |-> clicked, raised |-> FALSE,
                   result |-> InteractionResult(selector, FALSE, TRUE)]
             ELSE [test |-> clicked, raised |-> FALSE,
                   result |-> InteractionResult(selector, success, FALSE)]

\* the per-selector handler, or the end of a selector's elements: next selector
NextSelector(b) ==
    IF b.selector = NumSelectors
    THEN [b EXCEPT !.pc = "returned", !.index = 0, !.count = 0]
    ELSE [b EXCEPT !.pc = "selector", !.selector = @ + 1, !.index = 0, !.count = 0]

\* the next element of the selector, if any
NextElement(b) ==
    IF b.index = b.count THEN NextSelector(b) ELSE [b EXCEPT !.index = @ + 1]

(* what the model remembers of a candidate, and in found of the number of  *)
(* elements each selector gave (observation only)                          *)
Met(b, visible, fault, effect) ==
    [candidate |-> <<b.selector, b.index>>, visible |-> visible, fault |-> fault,
     url_changed |-> fault \in {"none", "url_after"} /\ effect = "navigate",
     modal_opened |-> fault \in {"none", "url_after"} /\ effect = "modal"]

\* driver.get(url) and the wait for the body element
OpenPage(ok, overlay) ==
    /\ button_test.pc = "open"
    /\ button_test' =
          IF ok THEN [button_test EXCEPT !.pc = "selector", !.modal_displayed = overlay]
          ELSE [button_test EXCEPT !.pc = "returned"]
    /\ UNCHANGED <<crawlVars, poolVars, taskVars, form_test, nav_test, analysis>>

\* elements = driver.find_elements(By.CSS_SELECTOR, selector), cut at the limit
FindElements(ok, n) ==
    LET count == IF n > ElementLimit THEN ElementLimit ELSE n IN
    /\ button_test.pc = "selector"
    /\ button_test' =
          LET b == [button_test EXCEPT !.found = Append(@, IF ok THEN count ELSE 0)]
          IN  IF ~ok \/ count = 0 THEN NextSelector(b)
              ELSE [b EXCEPT !.pc = "element", !.index = 1, !.count = count]
    /\ UNCHANGED <<crawlVars, poolVars, taskVars, form_test, nav_test, analysis>>

(* one pass of the element loop: the visibility test, _test_button_click,  *)
(* results.append and the pause                                            *)
TestElement(visible, fault, effect, modal_check_ok) ==
    LET b == [button_test EXCEPT
                 !.met = Append(@, Met(button_test, visible, fault, effect))]
        call == test_button_click(b, <<b.selector, b.index>>, fault, effect,
                                  modal_check_ok)
    IN  /\ button_test.pc = "element"
        /\ button_test' =
              IF fault = "displayed" THEN NextSelector(b)
              ELSE IF ~visible THEN NextElement(b)
              ELSE IF call.raised THEN NextSelector(call.test)
              ELSE NextElement([call.test EXCEPT
                                   !.results = Append(@, call.result)])
        /\ UNCHANGED <<crawlVars, poolVars, taskVars, form_test, nav_test, analysis>>

\* the outcomes of one candidate that lead to different states
CandidateInputs ==
    { [visible |-> FALSE, fault |-> "none", effect |-> "none", modal_check_ok |-> TRUE] }
    \cup { [visible |-> TRUE, fault |-> f, effect |-> "none", modal_check_ok |-> TRUE] :
              f \in {"displayed", "text", "scroll", "url_before", "click"} }
    \cup { [visible |-> TRUE, fault |-> "url_after", effect |-> e, modal_check_ok |-> TRUE] :
              e \in ClickEffects }
    \cup { [visible |-> TRUE, fault |-> "none", effect |-> e, modal_check_ok |-> m] :
              e \in ClickEffects, m \in BOOLEAN }

InitButtons ==
    /\ button_test = NewButtonTest
    /\ form_test = <<>>
    /\ nav_test = <<>>
    /\ analysis = <<>>
    /\ CrawlIdle
    /\ PoolIdle
    /\ TasksIdle

NextButtons ==
    \/ \E ok, overlay \in BOOLEAN : OpenPage(ok, overlay)
    \/ \E ok \in BOOLEAN, n \in 0..MaxElements : FindElements(ok, n)
    \/ \E x \in CandidateInputs :
          TestElement(x.visible, x.fault, x.effect, x.modal_check_ok)

SpecButtons == InitButtons /\ [][NextButtons]_vars

----------------------------------------------------------------------------
(* InteractionTester._test_form_submission on one displayed form.  The     *)
(* form is the input: its input, select and textarea elements, its submit  *)
(* controls, and which webdriver call raises.                              *)

\* largest number of input, select and textarea elements of a form
MaxFields == 2

\* one element found by "input, select, textarea"
Field(tag, type, name, required, usable, fault, options) ==
    [tag |-> tag, type |-> type, name |-> name, required |-> required,
     usable |-> usable, fault |-> fault, options |-> options]

(* usable: is_displayed() and is_enabled(); fault: "visibility" when that   *)
(* test raises, "fill" when a call inside the per-field try block raises   *)
Fields ==
    { Field("input", "email", "", TRUE, TRUE, "none", 0),
      Field("input", "text", "email", FALSE, TRUE, "none", 0),
      Field("input", "text", "", TRUE, TRUE, "fill", 0),
      Field("input", "text", "", FALSE, FALSE, "none", 0),
      Field("input", "text", "", FALSE, TRUE, "visibility", 0),
      Field("select", "", "", FALSE, TRUE, "none", 2),
      Field("select", "", "", FALSE, TRUE, "none", 1),
      Field("select", "", "", FALSE, TRUE, "fill", 2),
      Field("textarea", "textarea", "message", FALSE, TRUE, "none", 0) }

(* what happens at the submit step: how many submit controls the form has, *)
(* whether the lookup or the click raises, and what the click leads to     *)
Submit(controls, fault, effect) ==
    [controls |-> controls, fault |-> fault, effect |-> effect]

Submits ==
    { Submit(0, "none", "none"), Submit(0, "lookup", "none"),
      Submit(1, "lookup", "none"), Submit(1, "click", "none") }
    \cup { Submit(1, "none", e) : e \in {"none", "url_changed", "success_message"} }

Form(scroll_ok, inputs, submit) ==
    [scroll_ok |-> scroll_ok, inputs |-> inputs, submit |-> submit]

Forms ==
    { Form(ok, inputs, submit) :
        ok \in BOOLEAN, inputs \in SeqsUpTo(Fields, MaxFields), submit \in Submits }

\* InteractionTester._generate_test_data, on the types and names of Fields
generate_test_data(input_type, input_name) ==
    CASE input_type = "email" \/ input_name = "email" -> "test@example.com"
      [] input_type = "textarea" \/ input_name = "message" ->
            "This is a test message for form validation."
      [] OTHER -> "Test Value"

FormTestResult(tested, successful, submitted, validation_errors) ==
    [fields_tested |-> tested, fields_successful |-> successful,
     submission_successful |-> submitted,
     validation_errors |-> validation_errors]

(* the loop over the inputs from element i on: the counters and errors at  *)
(* its end, or raised when a visibility test raised out of the loop        *)
RECURSIVE FillFields(_, _, _)
FillFields(inputs, i, acc) ==
    IF i > Len(inputs) THEN acc
    ELSE LET input_elem == inputs[i]
             input_type == IF input_elem.type = "" THEN "text" ELSE input_elem.type
             test_value == generate_test_data(input_type, input_elem.name)
             filled == [acc EXCEPT !.fields_tested = @ + 1,
                                   !.fields_successful = @ + 1]
         IN  IF input_elem.fault = "visibility" THEN [acc EXCEPT !.raised = TRUE]
             ELSE IF ~input_elem.usable THEN FillFields(inputs, i + 1, acc)
             ELSE IF input_elem.fault = "fill"
             THEN FillFields(inputs, i + 1,
                     [acc EXCEPT !.fields_tested = @ + 1,
                                 !.validation_errors = Append(@, "Field error")])
             ELSE IF test_value # "" /\ input_elem.tag # "select"
             THEN FillFields(inputs, i + 1, filled)
             ELSE IF input_elem.tag = "select" /\ input_elem.options > 1
             THEN FillFields(inputs, i + 1, filled)
             ELSE FillFields(inputs, i + 1, acc)

(* a submit step without the "if submit_buttons" test: with no control     *)
(* submit_buttons[0] raises and a submission error is recorded             *)
SubmitFormUnguarded(submit, validation_errors) ==
    IF submit.fault # "none" \/ submit.controls = 0
    THEN [clicked |-> submit.fault = "click", submission_successful |-> FALSE,
          validation_errors |-> Append(validation_errors, "Submission error")]
    ELSE [clicked |-> TRUE,
          submission_successful |-> submit.effect # "none",
          validation_errors |-> validation_errors]

(* the submit step: whether a submit control was clicked, the verdict and  *)
(* the errors after it                                                     *)
SubmitForm(submit, validation_errors) ==
    IF submit.fault = "lookup"
    THEN [clicked |-> FALSE, submission_successful |-> FALSE,
          validation_errors |-> Append(validation_errors, "Submission error")]
    ELSE IF submit.controls = 0
    THEN [clicked |-> FALSE, submission_successful |-> FALSE,
          validation_errors |-> validation_errors]
    ELSE IF submit.fault = "click"
    THEN [clicked |-> TRUE, submission_successful |-> FALSE,
          validation_errors |-> Append(validation_errors, "Submission error")]
    ELSE LET url_changed == submit.effect = "url_changed"
             success_message == submit.effect = "success_message"
         IN  [clicked |-> TRUE,
              submission_successful |-> url_changed \/ success_message,
              validation_errors |-> validation_errors]

(* a probe without the per-field handler: a fill that raises reaches the   *)
(* outer handler, which gives up the form                                  *)
test_form_submission_unhandled(form) ==
    LET filled == FillFields(form.inputs, 1,
                     [fields_tested |-> 0, fields_successful |-> 0,
                      validation_errors |-> <<>>, raised |-> FALSE])
        sent == SubmitForm(form.submit, filled.validation_errors)
    IN  IF ~form.scroll_ok \/ filled.raised \/ filled.validation_errors # <<>>
        THEN [clicked |-> FALSE,
              result |-> FormTestResult(0, 0, FALSE, <<"error">>)]
        ELSE [clicked |-> sent.clicked,
              result |-> FormTestResult(filled.fields_tested,
                            filled.fields_successful,
                            sent.submission_successful, sent.validation_errors)]

\* _test_form_submission: the FormTestResult and whether a submit was clicked
test_form_submission(form) ==
    LET filled == FillFields(form.inputs, 1,
                     [fields_tested |-> 0, fields_successful |-> 0,
                      validation_errors |-> <<>>, raised |-> FALSE])
        sent == SubmitForm(form.submit, filled.validation_errors)
    IN  IF ~form.scroll_ok \/ filled.raised
        THEN [clicked |-> FALSE,
              result |-> FormTestResult(0, 0, FALSE, <<"error">>)]
        ELSE [clicked |-> sent.clicked,
              result |-> FormTestResult(filled.fields_tested,
                            filled.fields_successful,
                            sent.submission_successful, sent.validation_errors)]

NoFormResult == [clicked |-> FALSE, result |-> FormTestResult(0, 0, FALSE, <<>>)]

TestForm ==
    /\ form_test.pc = "start"
    /\ form_test' = [form_test EXCEPT !.pc = "returned",
                                      !.call = test_form_submission(form_test.form)]
    /\ UNCHANGED <<crawlVars, poolVars, taskVars, button_test, nav_test, analysis>>

InitForms ==
    /\ form_test \in {[pc |-> "start", form |-> f, call |-> NoFormResult] : f \in Forms}
    /\ button_test = <<>>
    /\ nav_test = <<>>
    /\ analysis = <<>>
    /\ CrawlIdle
    /\ PoolIdle
    /\ TasksIdle

NextForms == TestForm

SpecForms == InitForms /\ [][NextForms]_vars

----------------------------------------------------------------------------
(* CrawlerService._classify_page_type.  Texts are strings; "in" is the     *)
(* substring test and lower() maps the capital letters to small ones.      *)

\* largest number of path segments of a classified URL
MaxSegments == 2

\* a classification that consults the page content before the URL
classify_content_first(url, title, content) ==
    LET url_lower == Lower(url)
        content_lower == Lower(content)
    IN  IF Contains(content_lower, "add to cart") \/ Contains(content_lower, "buy now")
        THEN "product"
        ELSE IF Contains(content_lower, "sign up") \/ Contains(content_lower, "get started")
        THEN "signup"
        ELSE IF AnyIn(url_lower, {"landing", "lp", "campaign"}) THEN "landing"
        ELSE IF AnyIn(url_lower, {"product", "item", "/p/", "shop"}) THEN "product"
        ELSE IF AnyIn(url_lower, {"checkout", "cart", "payment", "billing"}) THEN "checkout"
        ELSE IF AnyIn(url_lower, {"thank", "confirmation", "success", "complete"})
        THEN "confirmation"
        ELSE IF AnyIn(url_lower, {"contact", "support", "help"}) THEN "contact"
        ELSE IF AnyIn(url_lower, {"about", "team", "company"}) THEN "about"
        ELSE IF AnyIn(url_lower, {"blog", "news", "article", "post"}) THEN "content"
        ELSE "general"

\* CrawlerService._classify_page_type
classify_page_type(url, title, content) ==
    LET url_lower == Lower(url)
        content_lower == Lower(content)
    IN  IF AnyIn(url_lower, {"landing", "lp", "campaign"}) THEN "landing"
        ELSE IF AnyIn(url_lower, {"product", "item", "/p/", "shop"}) THEN "product"
        ELSE IF AnyIn(url_lower, {"checkout", "cart", "payment", "billing"}) THEN "checkout"
        ELSE IF AnyIn(url_lower, {"thank", "confirmation", "success", "complete"})
        THEN "confirmation"
        ELSE IF AnyIn(url_lower, {"contact", "support", "help"}) THEN "contact"
        ELSE IF AnyIn(url_lower, {"about", "team", "company"}) THEN "about"
        ELSE IF AnyIn(url_lower, {"blog", "news", "article", "post"}) THEN "content"
        ELSE IF Contains(content_lower, "add to cart") \/ Contains(content_lower, "buy now")
        THEN "product"
        ELSE IF Contains(content_lower, "sign up") \/ Contains(content_lower, "get started")
        THEN "signup"
        ELSE "general"

\* the URLs, titles and page texts classified
UrlHosts == {"https://x.com", "http://shop.io"}

UrlSegments ==
    { "landing", "lp", "product", "p", "shop", "cart", "success",
      "contact", "help", "about", "blog", "promo", "Landing", "" }

RECURSIVE JoinPath(_)
JoinPath(segments) ==
    IF segments = <<>> THEN ""
    ELSE "/" \o segments[1] \o JoinPath(Tail(segments))

ClassifiedUrls ==
    { host \o JoinPath(segments) :
        host \in UrlHosts, segments \in SeqsUpTo(UrlSegments, MaxSegments) }

PageTexts ==
    { "", "Welcome", "Add to Cart", "BUY NOW or get started", "Please sign up" }

Classify ==
    /\ analysis.pc = "start"
    /\ analysis' = [analysis EXCEPT
          !.pc = "returned",
          !.page_type = classify_page_type(analysis.url, analysis.title,
                                           analysis.content)]
    /\ UNCHANGED <<crawlVars, poolVars, taskVars, button_test, form_test, nav_test>>

InitClassify ==
    /\ analysis \in { [pc |-> "start", url |-> u, title |-> "", content |-> c,
                        page_type |-> ""] : u \in ClassifiedUrls, c \in PageTexts }
    /\ button_test = <<>>
    /\ form_test = <<>>
    /\ nav_test = <<>>
    /\ CrawlIdle
    /\ PoolIdle
    /\ TasksIdle

NextClassify == Classify

SpecClassify == InitClassify /\ [][NextClassify]_vars

(* The table of the URL rules, in the order of the tests.  For each        *)
(* keyword the URL "https://x.com/" followed by the keyword is classified: *)
(* the host holds no keyword, so that URL gets another label exactly when  *)
(* the keyword itself holds a keyword of an earlier rule.                  *)
UrlRules ==
    << [page_type |-> "landing", keywords |-> {"landing", "lp", "campaign"}],
       [page_type |-> "product", keywords |-> {"product", "item", "/p/", "shop"}],
       [page_type |-> "checkout",
        keywords |-> {"checkout", "cart", "payment", "billing"}],
       [page_type |-> "confirmation",
        keywords |-> {"thank", "confirmation", "success", "complete"}],
       [page_type |-> "contact", keywords |-> {"contact", "support", "help"}],
       [page_type |-> "about", keywords |-> {"about", "team", "company"}],
       [page_type |-> "content", keywords |-> {"blog", "news", "article", "post"}] >>

KeywordHost == "https://x.com/"

KeywordUrls ==
    {KeywordHost \o k : k \in UNION {UrlRules[i].keywords : i \in DOMAIN UrlRules}}

InitKeywords ==
    /\ analysis \in { [pc |-> "start", url |-> u, title |-> "", content |-> c,
                        page_type |-> ""] : u \in KeywordUrls, c \in PageTexts }
    /\ button_test = <<>>
    /\ form_test = <<>>
    /\ nav_test = <<>>
    /\ CrawlIdle
    /\ PoolIdle
    /\ TasksIdle

NextKeywords == Classify

SpecKeywords == InitKeywords /\ [][NextKeywords]_vars

----------------------------------------------------------------------------
(* CrawlerService._detect_page_errors.  A document is what the lookups of  *)
(* the function see of it: its title element, its description and viewport *)
(* meta elements, its h1 elements and its img elements with a src          *)
(* attribute.  Absent stands for an element or attribute that is not       *)
(* there, Text(t) for one that is there with the text or value t.          *)

\* largest number of h1 elements of a document
MaxH1 == 2
\* largest number of img elements of a document
MaxImages == 2

Absent == [present |-> FALSE, text |-> ""]
Text(t) == [present |-> TRUE, text |-> t]

\* the meta element named description, with its content attribute
NoMeta == [present |-> FALSE, content |-> Absent]
Meta(content) == [present |-> TRUE, content |-> content]

Document(status, title, description, h1, viewport, images) ==
    [status |-> status, title |-> title, description |-> description,
     h1 |-> h1, viewport |-> viewport, images |-> images]

\* images: the src values of the img elements
Documents ==
    { Document(status, title, description, h1, viewport, images) :
        status \in {200, 399, 400, 404},
        title \in {Absent, Text(""), Text("  "), Text("Shop")},
        description \in {NoMeta, Meta(Absent), Meta(Text("")), Meta(Text(" ")),
                         Meta(Text("A shop"))},
        h1 \in 0..MaxH1,
        viewport \in BOOLEAN,
        images \in SeqsUpTo({"", "a.png"}, MaxImages) }

PageError(message, n) == [message |-> message, n |-> n]

\* meta_desc.get('content', '')
ContentOf(meta) == IF meta.content.present THEN meta.content.text ELSE ""

\* len(soup.find_all('img', src=''))
CountEmptySrc(images) == Cardinality({i \in DOMAIN images : images[i] = ""})

\* an h1 test that reports every document with an h1 as having several
several_h1_from_one(n) == n >= 1

\* elif len(h1_tags) > 1
several_h1(n) == n > 1

\* CrawlerService._detect_page_errors: the list of errors
detect_page_errors(doc) ==
    LET http == IF doc.status >= 400
                THEN <<PageError("HTTP error", doc.status)>> ELSE <<>>
        title == IF ~doc.title.present \/ Strip(doc.title.text) = ""
                 THEN <<PageError("Missing or empty title tag", 0)>> ELSE <<>>
        meta_desc == IF ~doc.description.present
                        \/ Strip(ContentOf(doc.description)) = ""
                     THEN <<PageError("Missing meta description", 0)>> ELSE <<>>
        h1_tags == IF doc.h1 = 0 THEN <<PageError("No H1 tags found", 0)>>
                   ELSE IF several_h1(doc.h1)
                   THEN <<PageError("Multiple H1 tags found", doc.h1)>>
                   ELSE <<>>
        viewport == IF ~doc.viewport
                    THEN <<PageError("Missing viewport meta tag", 0)>> ELSE <<>>
        broken_images == IF CountEmptySrc(doc.images) > 0
                         THEN <<PageError("images with empty src",
                                          CountEmptySrc(doc.images))>>
                         ELSE <<>>
    IN  http \o title \o meta_desc \o h1_tags \o viewport \o broken_images

DetectErrors ==
    /\ analysis.pc = "start"
    /\ analysis' = [analysis EXCEPT !.pc = "returned",
                                    !.errors = detect_page_errors(analysis.doc)]
    /\ UNCHANGED <<crawlVars, poolVars, taskVars, button_test, form_test, nav_test>>

InitErrors ==
    /\ analysis \in {[pc |-> "start", doc |-> d, errors |-> <<>>] : d \in Documents}
    /\ button_test = <<>>
    /\ form_test = <<>>
    /\ nav_test = <<>>
    /\ CrawlIdle
    /\ PoolIdle
    /\ TasksIdle

NextErrors == DetectErrors

SpecErrors == InitErrors /\ [][NextErrors]_vars

----------------------------------------------------------------------------
(* InteractionTester.test_navigation_flow, the body between get_driver and *)
(* the finally clause.  The browser is the environment: which links the    *)
(* selector finds, what each is like, which call raises, and whether a     *)
(* driver.get replaced the document.  The link elements were found in the  *)
(* document of start_url (document 0); once another document is loaded a   *)
(* call on one of them raises StaleElementReferenceException.             *)

\* largest number of links the navigation selector finds
MaxNavLinks == 3
\* nav_elements[:5]
NavLimit == 5

\* the call of the element inspection that raises
InspectFaults == {"none", "displayed", "enabled", "text", "href"}

\* the step of _test_navigation_path that raises
PathFaults == {"none", "get", "classify"}

NewNavTest ==
    [pc |-> "open", index |-> 0, count |-> 0, document |-> 0,
     navigation_paths |-> <<>>, error |-> FALSE, met |-> <<>>]

\* the dict _test_navigation_path returns: the error entry or the full one
PathResult(edge, error) == [edge |-> edge, error |-> error]

(* _test_navigation_path: driver.get(url), the pause, and the reads of     *)
(* current_url, the conversion links and the title; reloaded tells whether *)
(* driver.get replaced the document                                        *)
test_navigation_path(n, edge, fault, reloaded) ==
    [test |-> [n EXCEPT !.document = IF reloaded THEN @ + 1 ELSE @],
     result |-> PathResult(edge, fault # "none")]

\* an element of document 0 is stale once the document was replaced
Stale(n) == n.document # 0

\* the next pass of the for loop, or return navigation_data
NextNavElement(n) ==
    IF n.index = n.count THEN [n EXCEPT !.pc = "returned"]
    ELSE [n EXCEPT !.index = @ + 1]

(* what the model remembers of an edge (observation only): what the link   *)
(* is like in the page and what happened when it was evaluated             *)
NavMet(n, usable, http, fault, path_fault) ==
    [edge |-> n.index, usable |-> usable, http |-> http, stale |-> Stale(n),
     fault |-> fault, path_fault |-> path_fault]

\* driver.get(start_url) and the pause; a raise reaches the outer handler
NavOpen(ok) ==
    /\ nav_test.pc = "open"
    /\ nav_test' = IF ok THEN [nav_test EXCEPT !.pc = "find"]
                   ELSE [nav_test EXCEPT !.pc = "returned", !.error = TRUE]
    /\ UNCHANGED <<crawlVars, poolVars, taskVars, button_test, form_test, analysis>>

\* nav_elements = driver.find_elements(...), cut at the limit
NavFind(ok, found) ==
    LET count == IF found > NavLimit THEN NavLimit ELSE found IN
    /\ nav_test.pc = "find"
    /\ nav_test' =
          IF ~ok THEN [nav_test EXCEPT !.pc = "returned", !.error = TRUE]
          ELSE IF count = 0 THEN [nav_test EXCEPT !.pc = "returned"]
          ELSE [nav_test EXCEPT !.pc = "element", !.index = 1, !.count = count]
    /\ UNCHANGED <<crawlVars, poolVars, taskVars, button_test, form_test, analysis>>

(* one pass of the for loop: the inspection of the element, and for a      *)
(* displayed and enabled link with an http href _test_navigation_path and  *)
(* navigation_paths.append; an exception of the inspection is logged       *)
NavEdge(usable, http, fault, path_fault, reloaded) ==
    LET n == [nav_test EXCEPT
                 !.met = Append(@, NavMet(nav_test, usable, http, fault, path_fault))]
        call == test_navigation_path(n, n.index, path_fault, reloaded)
    IN  /\ nav_test.pc = "element"
        /\ nav_test' =
              IF Stale(n) \/ fault # "none" \/ ~usable \/ ~http
              THEN NextNavElement(n)
              ELSE NextNavElement([call.test EXCEPT
                      !.navigation_paths = Append(@, call.result)])
        /\ UNCHANGED <<crawlVars, poolVars, taskVars, button_test, form_test, analysis>>

\* the outcomes of one edge that lead to different states
EdgeInputs ==
    { [usable |-> TRUE, http |-> TRUE, fault |-> f, path_fault |-> "none",
       reloaded |-> FALSE] : f \in InspectFaults \ {"none"} }
    \cup { [usable |-> u, http |-> h, fault |-> "none", path_fault |-> "none",
            reloaded |-> FALSE] : u, h \in BOOLEAN }
    \cup { [usable |-> TRUE, http |-> TRUE, fault |-> "none", path_fault |-> pf,
            reloaded |-> r] : pf \in PathFaults, r \in BOOLEAN }

InitNavigation ==
    /\ nav_test = NewNavTest
    /\ button_test = <<>>
    /\ form_test = <<>>
    /\ analysis = <<>>
    /\ CrawlIdle
    /\ PoolIdle
    /\ TasksIdle

NextNavigation ==
    \/ \E ok \in BOOLEAN : NavOpen(ok)
    \/ \E ok \in BOOLEAN, found \in 0..MaxNavLinks : NavFind(ok, found)
    \/ \E x \in EdgeInputs :
          NavEdge(x.usable, x.http, x.fault, x.path_fault, x.reloaded)

SpecNavigation == InitNavigation /\ [][NextNavigation]_vars

----------------------------------------------------------------------------
(* The estimate of _test_navigation_path, on real URLs: the loop of        *)
(* test_navigation_flow over nav_elements[:5] with the pages the links     *)
(* lead to.  No driver.get redirects: current_url is the URL asked for.    *)

\* largest number of links the navigation selector finds, above the limit
MaxFoundLinks == 6

\* the max_depth test_navigation_flow is called with (default 3)
MaxDepths == {-1, 0, 1, 3}

\* the keywords of line 483
ConversionKeywords ==
    {"checkout", "cart", "buy", "purchase", "order", "signup", "register"}

\* the keywords of the selector of line 490
LinkKeywords == {"checkout", "cart", "buy", "signup"}

\* any(keyword in current_url for keyword in [...]), current_url lowered
is_conversion_page(current_url) == AnyIn(Lower(current_url), ConversionKeywords)

\* find_elements("a[href*='checkout'], a[href*='cart'], ...") on the page
conversion_links(hrefs) == {h \in hrefs : AnyIn(h, LinkKeywords)}

\* clicks_to_convert of lines 486-495
clicks_to_convert(current_url, hrefs, max_depth) ==
    IF ~is_conversion_page(current_url) /\ max_depth > 0
    THEN IF conversion_links(hrefs) # {} THEN 1 ELSE max_depth
    ELSE 0

(* the dict of lines 497-503, or the one of 506-510, which has no          *)
(* is_conversion_page and no clicks_to_convert: both read as FALSE and 0   *)
(* there.  hrefs is what the page held (observation only).                 *)
EdgeEstimate(url, hrefs, max_depth, raised) ==
    [url |-> url, hrefs |-> hrefs, error |-> raised,
     is_conversion_page |-> ~raised /\ is_conversion_page(url),
     clicks_to_convert |-> IF raised THEN 0
                           ELSE clicks_to_convert(url, hrefs, max_depth)]

NewEstimate(max_depth) ==
    [pc |-> "find", max_depth |-> max_depth, index |-> 0, count |-> 0,
     navigation_paths |-> <<>>]

\* nav_elements = driver.find_elements(...); for nav_element in nav_elements[:5]
EstimateFind(found) ==
    LET count == IF found > NavLimit THEN NavLimit ELSE found IN
    /\ nav_test.pc = "find"
    /\ nav_test' = IF count = 0 THEN [nav_test EXCEPT !.pc = "returned"]
                   ELSE [nav_test EXCEPT !.pc = "element", !.index = 1,
                                         !.count = count]
    /\ UNCHANGED <<crawlVars, poolVars, taskVars, button_test, form_test, analysis>>

(* one pass of the loop: a link that is not displayed, not enabled or has  *)
(* no http href is passed over; another is evaluated by                    *)
(* _test_navigation_path and its dict appended                             *)
EstimateEdge(usable, url, hrefs, raised) ==
    LET n == nav_test
        result == EdgeEstimate(url, hrefs, n.max_depth, raised)
    IN  /\ n.pc = "element"
        /\ nav_test' = NextNavElement(
              IF usable
              THEN [n EXCEPT !.navigation_paths = Append(@, result)]
              ELSE n)
        /\ UNCHANGED <<crawlVars, poolVars, taskVars, button_test, form_test, analysis>>

\* the links of the navigation and the pages behind them
EstimateInputs ==
    { [usable |-> FALSE, url |-> "http://s.test/about", hrefs |-> {},
       raised |-> FALSE],
      [usable |-> TRUE, url |-> "http://s.test/about", hrefs |-> {},
       raised |-> TRUE],
      [usable |-> TRUE, url |-> "http://s.test/Cart", hrefs |-> {},
       raised |-> FALSE] }
    \cup { [usable |-> TRUE, url |-> "http://s.test/about", hrefs |-> h,
            raised |-> FALSE] : h \in {{}, {"/checkout"}, {"/register"}} }

InitEstimate ==
    /\ nav_test \in {NewEstimate(d) : d \in MaxDepths}
    /\ button_test = <<>>
    /\ form_test = <<>>
    /\ analysis = <<>>
    /\ CrawlIdle
    /\ PoolIdle
    /\ TasksIdle

NextEstimate ==
    \/ \E found \in 0..MaxFoundLinks : EstimateFind(found)
    \/ \E x \in EstimateInputs : EstimateEdge(x.usable, x.url, x.hrefs, x.raised)

SpecEstimate == InitEstimate /\ [][NextEstimate]_vars

----------------------------------------------------------------------------
(* Specifications of the crawler *)

Init ==
    /\ engines \in [{1} -> {NewEngine(n) : n \in 0..MaxPages}]
    /\ crawls \in [{1} -> {NewCrawl(1, s) : s \in StartUrls}]
    /\ robots_log = <<>>
    /\ PoolIdle
    /\ TasksIdle
    /\ TestIdle

Next ==
    \/ \E r \in DOMAIN crawls :
          /\ crawls[r].pc = "robots"
          /\ \E resp \in RobotsResponses : CheckRobots(r, resp)
    \/ \E r \in DOMAIN crawls : \E u \in crawls[r].to_crawl : Pop(r, u)
    \/ \E r \in DOMAIN crawls : FetchFail(r)
    \/ \E r \in DOMAIN crawls :
          /\ crawls[r].pc = "fetch"
          /\ \E links \in SeqsUpTo(Hrefs, MaxLinks) : FetchOk(r, links)
    \/ \E r \in DOMAIN crawls : Sleep(r)
    \/ \E r \in DOMAIN crawls : Return(r)

Spec == Init /\ [][Next]_vars

(* The event loop runs the crawl whenever it can take a step: every await  *)
(* of crawl_website returns (the page fetch within the 30 s total timeout  *)
(* of the session, the sleep after its delay).                             *)
SpecFair == Spec /\ WF_vars(Next)

(* The crawl on a site whose pages answer with any status.  robots.txt is  *)
(* absent and the hrefs are same-host paths and one urlsplit rejects.      *)
Statuses == {200, 404, 503}

StatusHrefs == {RelHref("/a"), RelHref("/b"), BadHref}

NextStatus ==
    \/ \E r \in DOMAIN crawls :
          /\ crawls[r].pc = "robots"
          /\ CheckRobots(r, RobotsResponse(FALSE, 404, <<>>))
    \/ \E r \in DOMAIN crawls : \E u \in crawls[r].to_crawl : Pop(r, u)
    \/ \E r \in DOMAIN crawls : FetchFail(r)
    \/ \E r \in DOMAIN crawls :
          /\ crawls[r].pc = "fetch"
          /\ \E status \in Statuses, links \in SeqsUpTo(StatusHrefs, MaxLinks) :
                FetchResponse(r, status, links)
    \/ \E r \in DOMAIN crawls : Sleep(r)
    \/ \E r \in DOMAIN crawls : Return(r)

SpecStatus == Init /\ [][NextStatus]_vars

----------------------------------------------------------------------------
(* Two crawl_website invocations on one CrawlerService.  The site answers  *)
(* every request made on an open ClientSession, robots.txt is absent, and  *)
(* no href is rejected: run alone, a crawl has no broken link.             *)

\* number of overlapping invocations
NumCrawls == 2

SharedHrefs == {RelHref("/a"), RelHref("/b")}

\* the ClientSession self.session names has left its async with block
SessionClosed(r) ==
    LET s == engines[crawls[r].engine].session IN
    s # NoSession /\ crawls[s].pc = "done"

\* self.session.get(url) on an open session: the site answers
SharedFetchOk(r, links) ==
    /\ ~SessionClosed(r)
    /\ FetchOk(r, links)

\* self.session.get(url) on a closed session raises RuntimeError
SharedFetchFail(r) ==
    /\ SessionClosed(r)
    /\ FetchFail(r)

InitShared ==
    /\ engines \in [{1} -> {NewEngine(n) : n \in 1..MaxPages}]
    /\ crawls \in [1..NumCrawls -> {NewCrawl(1, s) : s \in StartUrls}]
    /\ robots_log = <<>>
    /\ PoolIdle
    /\ TasksIdle
    /\ TestIdle

NextShared ==
    \/ \E r \in DOMAIN crawls :
          /\ crawls[r].pc = "robots"
          /\ CheckRobots(r, RobotsResponse(FALSE, 404, <<>>))
    \/ \E r \in DOMAIN crawls : \E u \in crawls[r].to_crawl : Pop(r, u)
    \/ \E r \in DOMAIN crawls : SharedFetchFail(r)
    \/ \E r \in DOMAIN crawls :
          /\ crawls[r].pc = "fetch"
          /\ \E links \in SeqsUpTo(SharedHrefs, MaxLinks) : SharedFetchOk(r, links)
    \/ \E r \in DOMAIN crawls : Sleep(r)
    \/ \E r \in DOMAIN crawls : Return(r)

SpecShared == InitShared /\ [][NextShared]_vars

----------------------------------------------------------------------------
(* Two crawl_website invocations, each on its own CrawlerService built     *)
(* with the same max_pages, started on the same URL and meeting the same   *)
(* site: every frontier pop takes the same URL and every page fetch has    *)
(* the same outcome in both.  Only the robots.txt answers are independent. *)

SiteInput(u, ok, links) == [u |-> u, ok |-> ok, links |-> links]

\* the step of crawl_website at c's position under the site behaviour x
Advance(c, max_pages, x) ==
    CASE c.pc = "loop" ->
            IF ~LoopGuard(c, max_pages) THEN ReturnStep(c)
            ELSE IF x.u \in c.to_crawl THEN PopStep(c, x.u)
            ELSE c
      [] c.pc = "fetch"  -> IF x.ok THEN PageStep(c, x.links) ELSE FetchFailStep(c)
      [] c.pc = "sleep"  -> SleepStep(c)
      [] OTHER           -> c

TwinCheckRobots(resp1, resp2) ==
    LET res1 == check_robots_txt(engines[1].robots_cache, crawls[1].domain, resp1)
        res2 == check_robots_txt(engines[2].robots_cache, crawls[2].domain, resp2)
    IN  /\ \A r \in DOMAIN crawls : crawls[r].pc = "robots"
        /\ crawls' = [crawls EXCEPT ![1] = AfterRobots(@, res1.allowed),
                                    ![2] = AfterRobots(@, res2.allowed)]
        /\ engines' = [engines EXCEPT ![1].robots_cache = res1.cache,
                                      ![1].session = 1,
                                      ![2].robots_cache = res2.cache,
                                      ![2].session = 2]
        /\ robots_log' = robots_log \o
               << [domain |-> crawls[1].domain, fetched |-> res1.fetched,
                   failed |-> FetchFailed(resp1), allowed |-> res1.allowed],
                  [domain |-> crawls[2].domain, fetched |-> res2.fetched,
                   failed |-> FetchFailed(resp2), allowed |-> res2.allowed] >>
        /\ UNCHANGED <<poolVars, taskVars, testVars>>

Lockstep(x) ==
    /\ crawls' = [r \in DOMAIN crawls |->
                    Advance(crawls[r], MaxPagesOf(crawls[r]), x)]
    /\ crawls' # crawls
    /\ UNCHANGED <<engines, robots_log, poolVars, taskVars, testVars>>

\* some crawl is about to pop: the frontier hands out u
TwinPop(u) ==
    /\ \E r \in DOMAIN crawls :
          crawls[r].pc = "loop" /\ LoopGuard(crawls[r], MaxPagesOf(crawls[r]))
    /\ Lockstep(SiteInput(u, TRUE, <<>>))

\* some crawl awaits a page: the site answers it, or fails
TwinFetch(ok, links) ==
    /\ \E r \in DOMAIN crawls : crawls[r].pc = "fetch"
    /\ Lockstep(SiteInput(NoUrl, ok, links))

\* no crawl needs the site: every crawl takes its next step
TwinInternal ==
    /\ \A r \in DOMAIN crawls :
          /\ crawls[r].pc # "fetch"
          /\ ~(crawls[r].pc = "loop" /\ LoopGuard(crawls[r], MaxPagesOf(crawls[r])))
    /\ Lockstep(SiteInput(NoUrl, TRUE, <<>>))

InitTwin ==
    /\ \E n \in 0..MaxPages : engines = [e \in {1, 2} |-> NewEngine(n)]
    /\ \E s \in StartUrls : crawls = [r \in {1, 2} |-> NewCrawl(r, s)]
    /\ robots_log = <<>>
    /\ PoolIdle
    /\ TasksIdle
    /\ TestIdle

NextTwin ==
    \/ /\ \A r \in DOMAIN crawls : crawls[r].pc = "robots"
       /\ \E resp1, resp2 \in RobotsResponses : TwinCheckRobots(resp1, resp2)
    \/ \E r \in DOMAIN crawls : \E u \in crawls[r].to_crawl : TwinPop(u)
    \/ /\ \E r \in DOMAIN crawls : crawls[r].pc = "fetch"
       /\ \E links \in SeqsUpTo(Hrefs, MaxLinks) : TwinFetch(TRUE, links)
    \/ TwinFetch(FALSE, <<>>)
    \/ TwinInternal

SpecTwin == InitTwin /\ [][NextTwin]_vars

----------------------------------------------------------------------------
(* Repeated _check_robots_txt queries on one CrawlerService *)

\* largest number of queries in one behaviour
MaxQueries == 4

RobotsDomains == {Url("http", "a.com", ""), Url("https", "b.com", "")}

QueryRobots(domain, resp) ==
    LET res == check_robots_txt(engines[1].robots_cache, domain, resp) IN
    /\ Len(robots_log) < MaxQueries
    /\ engines' = [engines EXCEPT ![1].robots_cache = res.cache]
    /\ robots_log' = Append(robots_log,
           [domain |-> domain, fetched |-> res.fetched,
            failed |-> res.fetched /\ FetchFailed(resp), allowed |-> res.allowed])
    /\ UNCHANGED <<crawls, poolVars, taskVars, testVars>>

InitRobots ==
    /\ engines = [e \in {1} |-> NewEngine(0)]
    /\ crawls = <<>>
    /\ robots_log = <<>>
    /\ PoolIdle
    /\ TasksIdle
    /\ TestIdle

NextRobots ==
    \E domain \in RobotsDomains, resp \in RobotsResponses : QueryRobots(domain, resp)

SpecRobots == InitRobots /\ [][NextRobots]_vars

----------------------------------------------------------------------------
(* One _check_robots_txt query answered with status 200 and a body given   *)
(* as text, line by line as split('\n') cuts it.                           *)

\* largest number of lines of a robots.txt given as text
MaxScanLines == 3

RawRobotsLines ==
    { "User-agent: *", "USER-AGENT: MyFunnelBot", "user-agent: googlebot",
      "Disallow: /", "  disallow:/ ", "Disallow: /private", "Disallow:",
      "Allow: /" }

\* the query; the log entry keeps the text of the body
QueryText(domain, raw_lines) ==
    LET resp == RobotsResponse(FALSE, 200, ParseBody(raw_lines))
        res == check_robots_txt(engines[1].robots_cache, domain, resp)
    IN  /\ robots_log = <<>>
        /\ engines' = [engines EXCEPT ![1].robots_cache = res.cache]
        /\ robots_log' = Append(robots_log,
               [domain |-> domain, fetched |-> res.fetched, failed |-> FALSE,
                allowed |-> res.allowed, body |-> raw_lines])
        /\ UNCHANGED <<crawls, poolVars, taskVars, testVars>>

NextScan ==
    \E domain \in RobotsDomains, raw_lines \in SeqsUpTo(RawRobotsLines, MaxScanLines) :
        QueryText(domain, raw_lines)

SpecScan == InitRobots /\ [][NextScan]_vars

----------------------------------------------------------------------------
(* CrawlerService._crawl_page: the PageInfo built from a response.  The    *)
(* html is what the extraction sees of it: the elements _detect_page_errors *)
(* looks at, the text the classification searches, and the href, form and  *)
(* button descriptors in document order.  load_time is the time the clock  *)
(* measured around the request.                                            *)

\* number of analyses in one behaviour
MaxAnalyses == 2

Html(title, description, h1, viewport, images, text, links, forms, buttons) ==
    [title |-> title, description |-> description, h1 |-> h1,
     viewport |-> viewport, images |-> images, text |-> text, links |-> links,
     forms |-> forms, buttons |-> buttons]

Htmls ==
    { Html(title, Meta(Text("A shop")), h1, TRUE, <<"", "a.png">>, text,
           <<RelHref("/a")>>, <<>>, <<"Buy">>) :
        title \in {Absent, Text(" Shop ")},
        h1 \in {1, 2},
        text \in {"Welcome", "Add to Cart"} }

AnalysedUrls == {"https://x.com/", "https://x.com/landing/promo"}

\* the values time.time() - start_time takes
LoadTimes == {1, 2}

\* a page analysis that reports a slow response among the errors
crawl_page_timed(url, html, status, load_time) ==
    [url |-> url, title |-> "", page_type |-> "general", load_time |-> load_time,
     status_code |-> status, content_length |-> Len(html.text),
     links |-> html.links, forms |-> html.forms, buttons |-> html.buttons,
     images |-> html.images, meta_description |-> "", h1_tags |-> html.h1,
     errors |-> IF load_time > 1 THEN <<PageError("Slow response", load_time)>>
                ELSE <<>>]

\* CrawlerService._crawl_page, from the response on
crawl_page(url, html, status, load_time) ==
    LET title_text == IF html.title.present THEN Strip(html.title.text) ELSE ""
        meta_description == IF html.description.present
                            THEN ContentOf(html.description) ELSE ""
        page_type == classify_page_type(url, title_text, html.text)
        errors == detect_page_errors(
                     Document(status, html.title, html.description, html.h1,
                              html.viewport, html.images))
    IN  [url |-> url, title |-> title_text, page_type |-> page_type,
         load_time |-> load_time, status_code |-> status,
         content_length |-> Len(html.text), links |-> html.links,
         forms |-> html.forms, buttons |-> html.buttons, images |-> html.images,
         meta_description |-> meta_description, h1_tags |-> html.h1,
         errors |-> errors]

\* one _crawl_page call on the response (url, html, status)
AnalysePage(load_time) ==
    /\ Len(analysis.records) < MaxAnalyses
    /\ analysis' = [analysis EXCEPT !.records =
          Append(@, crawl_page(analysis.url, analysis.html, analysis.status,
                               load_time))]
    /\ UNCHANGED <<crawlVars, poolVars, taskVars, button_test, form_test, nav_test>>

\* the engine is used in between: a robots query fills its cache
EngineActivity ==
    \E domain \in RobotsDomains :
        QueryRobots(domain,
                    RobotsResponse(FALSE, 200, <<UALine("*"), DisLine("/")>>))

InitAnalysis ==
    /\ analysis \in { [url |-> u, html |-> h, status |-> st, records |-> <<>>] :
                        u \in AnalysedUrls, h \in Htmls, st \in {200, 404} }
    /\ engines = [e \in {1} |-> NewEngine(0)]
    /\ crawls = <<>>
    /\ robots_log = <<>>
    /\ PoolIdle
    /\ TasksIdle
    /\ button_test = <<>>
    /\ form_test = <<>>
    /\ nav_test = <<>>

NextAnalysis ==
    \/ \E load_time \in LoadTimes : AnalysePage(load_time)
    \/ EngineActivity

SpecAnalysis == InitAnalysis /\ [][NextAnalysis]_vars

----------------------------------------------------------------------------
(* CrawlerService._crawl_page: the buttons list.  The document is the      *)
(* sequence of its elements in document order; an element is its tag name, *)
(* its type and value attributes ("" when the attribute is absent) and its *)
(* text.                                                                   *)

\* largest number of elements of a document
MaxDocElements == 3

Element(tag, type, text, value) ==
    [tag |-> tag, type |-> type, text |-> text, value |-> value]

DocElements ==
    { Element("button", "", " Buy ", ""),
      Element("button", "submit", "", "Go"),
      Element("input", "submit", "", "Send"),
      Element("input", "button", "", "Ok"),
      Element("input", "text", "", ""),
      Element("a", "", "Home", "") }

(* the names given to soup.find_all: a list of strings is a list of tag    *)
(* names, and a tag matches when its name equals one of them               *)
ButtonNames == {"button", "input[type=\"submit\"]", "input[type=\"button\"]"}

\* button_info: text, or the value attribute when the text is empty; type
ButtonInfo(el) ==
    [text |-> IF Strip(el.text) # "" THEN Strip(el.text) ELSE el.value,
     type |-> IF el.type = "" THEN "button" ELSE el.type]

\* soup.find_all(names), in document order
FindAll(elements, names) ==
    LET named(el) == el.tag \in names IN SelectSeq(elements, named)

\* the for loop over the elements found: buttons
extract_buttons(elements) ==
    LET found == FindAll(elements, ButtonNames)
    IN  [i \in DOMAIN found |-> ButtonInfo(found[i])]

\* the buttons part of one _crawl_page call
ExtractButtons ==
    /\ analysis.pc = "parsed"
    /\ analysis' = [analysis EXCEPT !.pc = "extracted",
                                    !.buttons = extract_buttons(analysis.elements)]
    /\ UNCHANGED <<crawlVars, poolVars, taskVars, button_test, form_test, nav_test>>

InitExtract ==
    /\ analysis \in { [pc |-> "parsed", elements |-> e, buttons |-> <<>>] :
                        e \in SeqsUpTo(DocElements, MaxDocElements) }
    /\ CrawlIdle
    /\ PoolIdle
    /\ TasksIdle
    /\ button_test = <<>>
    /\ form_test = <<>>
    /\ nav_test = <<>>

NextExtract == ExtractButtons

SpecExtract == InitExtract /\ [][NextExtract]_vars

----------------------------------------------------------------------------
(* tasks/audit_tasks.py on the audits table: run_comprehensive_audit, one  *)
(* task per queued message, and retry_failed_audits.  A task is a process  *)
(* of a Celery worker with a database session of its own; what it does     *)
(* between two commits is one step.  The crawl, the probes and the report  *)
(* of a run are its environment: the run completes or raises.  A session   *)
(* keeps the attributes a query loaded until its next commit, which        *)
(* expires them; an expired attribute is read again from the table.        *)

\* rows of the audits table
NumAudits == 2
\* workers that can run retry_failed_audits at the same time
NumSweeps == 2
\* invocations of retry_failed_audits
MaxSweeps == 4
\* Audit.retry_count < 3
RetryLimit == 3

AuditIds == 1..NumAudits

\* Column defaults of Audit: status "pending", retry_count 0
NewAudit == [status |-> "pending", retry_count |-> 0]

\* no invocation of retry_failed_audits runs on this worker
NoSweep == [pc |-> "idle", failed_audits |-> <<>>, loaded |-> <<>>, expired |-> FALSE]

(* the table after the audits were created and their first run queued;     *)
(* requeues counts the delay() calls of the sweeps (observation only)      *)
NewTasks ==
    [rows |-> [a \in AuditIds |-> NewAudit],
     queued |-> [a \in AuditIds |-> 1],
     running |-> [a \in AuditIds |-> 0],
     requeues |-> [a \in AuditIds |-> 0],
     sweeps |-> [s \in 1..NumSweeps |-> NoSweep],
     started |-> 0]

\* run_comprehensive_audit takes a message: status "processing", commit
RunStart(a) ==
    /\ audits.queued[a] > 0
    /\ audits' = [audits EXCEPT !.queued[a] = @ - 1, !.running[a] = @ + 1,
                                !.rows[a].status = "processing"]
    /\ UNCHANGED <<crawlVars, poolVars, testVars>>

\* the four phases return: status "completed", commit
RunComplete(a) ==
    /\ audits.running[a] > 0
    /\ audits' = [audits EXCEPT !.running[a] = @ - 1,
                                !.rows[a].status = "completed"]
    /\ UNCHANGED <<crawlVars, poolVars, testVars>>

\* a phase raises: the handler sets status "failed", commits and re-raises
RunFail(a) ==
    /\ audits.running[a] > 0
    /\ audits' = [audits EXCEPT !.running[a] = @ - 1,
                                !.rows[a].status = "failed"]
    /\ UNCHANGED <<crawlVars, poolVars, testVars>>

\* filter(Audit.status == "failed", Audit.retry_count < 3).all()
failed_audits(rows) ==
    LET selected(a) == rows[a].status = "failed" /\ rows[a].retry_count < RetryLimit
    IN  SelectSeq([a \in AuditIds |-> a], selected)

\* retry_failed_audits starts: the query, with the rows as it loads them
SweepQuery(s) ==
    LET found == failed_audits(audits.rows) IN
    /\ audits.sweeps[s].pc = "idle"
    /\ audits.started < MaxSweeps
    /\ audits' = [audits EXCEPT
          !.started = @ + 1,
          !.sweeps[s] = IF found = <<>> THEN NoSweep
                        ELSE [pc |-> "loop", failed_audits |-> found,
                              loaded |-> [a \in AuditIds |-> audits.rows[a].retry_count],
                              expired |-> FALSE]]
    /\ UNCHANGED <<crawlVars, poolVars, testVars>>

\* audit.retry_count as the session of the sweep reads it
retry_count_read(sweep, rows, a) ==
    IF sweep.expired THEN rows[a].retry_count ELSE sweep.loaded[a]

(* one pass of the loop: retry_count += 1, status "pending", commit and    *)
(* run_comprehensive_audit.delay; after the last pass the task ends        *)
SweepRequeue(s) ==
    LET sweep == audits.sweeps[s]
        a == Head(sweep.failed_audits)
        rest == Tail(sweep.failed_audits)
        count == retry_count_read(sweep, audits.rows, a)
    IN  /\ sweep.pc = "loop"
        /\ audits' = [audits EXCEPT
              !.rows[a] = [status |-> "pending", retry_count |-> count + 1],
              !.queued[a] = @ + 1,
              !.requeues[a] = @ + 1,
              !.sweeps[s] = IF rest = <<>> THEN NoSweep
                            ELSE [sweep EXCEPT !.failed_audits = rest,
                                               !.expired = TRUE]]
        /\ UNCHANGED <<crawlVars, poolVars, testVars>>

InitRetry ==
    /\ audits = NewTasks
    /\ CrawlIdle
    /\ PoolIdle
    /\ TestIdle

NextRetry ==
    \/ \E a \in AuditIds : RunStart(a)
    \/ \E a \in AuditIds : RunComplete(a)
    \/ \E a \in AuditIds : RunFail(a)
    \/ \E s \in 1..NumSweeps : SweepQuery(s)
    \/ \E s \in 1..NumSweeps : SweepRequeue(s)

SpecRetry == InitRetry /\ [][NextRetry]_vars

----------------------------------------------------------------------------
(* Claims on the crawl loop *)

Urls(s) == Range(s)

(* C1: with max_pages = N the page list holds at most N pages in every     *)
(* state of the crawl loop, and so does the SiteMap returned               *)
(* (crawl_stats.total_pages <= N), whatever the links and failing fetches. *)
C1_PageCap ==
    \A r \in DOMAIN crawls :
        LET c == crawls[r] IN
        /\ Len(c.pages) <= MaxPagesOf(c)
        /\ Len(c.sitemap.pages) <= MaxPagesOf(c)
        /\ c.sitemap.total_pages <= MaxPagesOf(c)

\* the cap stopped a crawl that still had a frontier and had met a failing fetch
C1_Witness ==
    \E r \in DOMAIN crawls :
        LET c == crawls[r] IN
        /\ c.pc = "done" /\ c.sitemap.returned
        /\ MaxPagesOf(c) >= 2
        /\ c.sitemap.total_pages = MaxPagesOf(c)
        /\ c.to_crawl # {}
        /\ c.broken_links # <<>>

(* C2: in every state of a crawl and in the SiteMap returned, no URL is    *)
(* both in the page list and in broken_links.                              *)
C2_VisitedBrokenDisjoint ==
    \A r \in DOMAIN crawls :
        LET c == crawls[r] IN
        /\ Urls(c.pages) \cap Urls(c.broken_links) = {}
        /\ Urls(c.sitemap.pages) \cap Urls(c.sitemap.broken_links) = {}

(* C3: a URL discovered during a crawl (the start URL, or a link resolved  *)
(* against its page) is recorded in external_links iff its network         *)
(* location differs from the start URL's network location.                 *)
C3_ExternalIffNetlocDiffers ==
    \A r \in DOMAIN crawls :
        LET c == crawls[r] IN
        \A u \in c.discovered :
            (u \in Urls(c.external_links)) <=> (Netloc(u) # Netloc(c.start_url))

(* a returned crawl that met a link of the same host under another scheme  *)
(* (internal) and a link to the same host on another port (external)       *)
C3_Witness ==
    \E r \in DOMAIN crawls :
        LET c == crawls[r] IN
        /\ c.pc = "done"
        /\ \E u \in c.discovered :
              /\ u.scheme # c.start_url.scheme
              /\ Netloc(u) = Netloc(c.start_url)
              /\ u \notin Urls(c.external_links)
        /\ \E u \in c.discovered :
              /\ Netloc(u) # Netloc(c.start_url)
              /\ u \in Urls(c.external_links)

C11_Step(r) ==
    LET c == crawls[r]
        d == crawls'[r]
        failed == d.broken_links # c.broken_links
    IN  /\ c.pc = "fetch" =>
              \/ d = c
              \/ d.pc = "sleep" /\ ~failed
              \/ d.pc = "loop" /\ failed
        /\ failed =>
              /\ c.pc = "fetch"
              /\ d.broken_links = Append(c.broken_links, c.current_url)
              /\ d.pc = "loop"
              /\ c.to_crawl \subseteq d.to_crawl
              /\ Len(d.pages) >= Len(c.pages)

(* C11: a failure while fetching or analysing a page never aborts the      *)
(* crawl: the failing URL is appended to broken_links, the loop goes on    *)
(* with the frontier it had, and crawl_website eventually returns a        *)
(* SiteMap that carries the broken links.                                  *)
C11_FailureNeverAborts ==
    /\ [][\A r \in DOMAIN crawls : C11_Step(r)]_vars
    /\ <>(\A r \in DOMAIN crawls :
              /\ crawls[r].pc = "done"
              /\ crawls[r].sitemap.returned
              /\ crawls[r].sitemap.broken_links = crawls[r].broken_links)

(* a returned SiteMap with two broken links and two pages: the loop went   *)
(* on after the first failure                                              *)
C11_Witness ==
    \E r \in DOMAIN crawls :
        LET c == crawls[r] IN
        /\ c.pc = "done" /\ c.sitemap.returned
        /\ Len(c.sitemap.broken_links) >= 2
        /\ Len(c.sitemap.pages) >= 2
        /\ c.sitemap.pages[1] \notin Urls(c.sitemap.broken_links)

\* the fetch of the start URL, the first of the crawl, raises
C21_Step(r) ==
    LET c == crawls[r]
        d == crawls'[r]
    IN  (/\ c.pc = "fetch" /\ c.current_url = c.start_url
         /\ c.pages = <<>> /\ c.broken_links = <<>>
         /\ d.pc = "loop" /\ d.pages = <<>>)
        => /\ d.broken_links = <<c.start_url>>
           /\ d.to_crawl = {}

(* C21: with max_pages = 0 no page is fetched and the SiteMap has empty    *)
(* pages, broken_links and external_links; when the fetch of the start URL *)
(* itself fails, the SiteMap has zero pages and broken_links holds exactly *)
(* the start URL once.                                                     *)
C21_EdgeCases ==
    /\ [](\A r \in DOMAIN crawls :
            LET c == crawls[r] IN
            /\ MaxPagesOf(c) = 0 =>
                  /\ c.fetched = {}
                  /\ c.pages = <<>> /\ c.broken_links = <<>>
                  /\ c.external_links = <<>>
            /\ (c.pc = "done" /\ c.start_url \notin Urls(c.pages)
                   /\ c.start_url \in c.fetched) =>
                  /\ c.sitemap.pages = <<>>
                  /\ c.sitemap.total_pages = 0
                  /\ c.sitemap.broken_links = <<c.start_url>>)
    /\ [][\A r \in DOMAIN crawls : C21_Step(r)]_vars

\* a crawl with room for MaxPages pages has returned after its start URL failed
C21_Witness ==
    \E r \in DOMAIN crawls :
        LET c == crawls[r] IN
        /\ c.pc = "done" /\ c.sitemap.returned
        /\ MaxPagesOf(c) = MaxPages
        /\ c.fetched = {c.start_url}
        /\ c.sitemap.broken_links = <<c.start_url>>
        /\ c.sitemap.pages = <<>>

(* a crawl of a small healthy site has returned: no fetch or analysis      *)
(* failed, every URL discovered is on the start URL's host, and there are  *)
(* at most max_pages of them.  The pages fetched then give the link        *)
(* structure of the site, and since every URL discovered was fetched,      *)
(* discovered is the set of URLs reachable from the start URL.             *)
HealthySite(c) ==
    /\ c.pc = "done"
    /\ c.failures = 0
    /\ \A u \in c.discovered : Netloc(u) = Netloc(c.start_url)
    /\ Cardinality(c.discovered) <= engines[c.engine].max_pages

(* C23: when every fetch succeeds, all links are internal and the number   *)
(* of URLs reachable from the start URL is at most max_pages, the crawl    *)
(* returns exactly one page record per reachable URL, total_pages is their *)
(* number, and broken_links and external_links are empty, for every pop    *)
(* order of the frontier.                                                  *)
C23_HealthySiteComplete ==
    \A r \in DOMAIN crawls :
        LET c == crawls[r] IN
        HealthySite(c) =>
            /\ Urls(c.sitemap.pages) = c.discovered
            /\ Len(c.sitemap.pages) = Cardinality(c.discovered)
            /\ c.sitemap.total_pages = Cardinality(c.discovered)
            /\ c.sitemap.broken_links = <<>>
            /\ c.sitemap.external_links = <<>>

(* a chain of three pages, home -> second -> third, with a link back that  *)
(* re-enters a crawled URL into the frontier, crawled with max_pages = 3   *)
C23_Witness ==
    \E r \in DOMAIN crawls :
        LET c == crawls[r] IN
        /\ HealthySite(c)
        /\ Cardinality(c.discovered) = 3
        /\ c.sitemap.total_pages = 3
        /\ c.sitemap.pages[1] = c.start_url
        /\ c.to_crawl # {}

(* C24: once a URL has been dequeued it ends in at most one terminal       *)
(* bucket (visited or broken), and a URL that is already in visited is     *)
(* never added to the frontier again, even when later pages link back to   *)
(* it.                                                                     *)
C24_FrontierInvariant ==
    /\ [](\A r \in DOMAIN crawls :
            crawls[r].crawled \cap Urls(crawls[r].broken_links) = {})
    /\ [][\A r \in DOMAIN crawls :
            (crawls'[r].to_crawl \ crawls[r].to_crawl)
                \cap crawls'[r].crawled = {}]_vars

NoDuplicates(s) == \A i, j \in DOMAIN s : s[i] = s[j] => i = j

(* C25: within one crawl every discovered in-domain URL is fetched at most *)
(* once, whether its fetch succeeded or failed, for any link structure and *)
(* any pop order; neither the page list nor broken_links holds the same    *)
(* URL twice.                                                              *)
C25_FetchedAtMostOnce ==
    /\ [](\A r \in DOMAIN crawls :
            /\ NoDuplicates(crawls[r].pages)
            /\ NoDuplicates(crawls[r].broken_links))
    /\ [][\A r \in DOMAIN crawls :
            (crawls[r].pc = "loop" /\ crawls'[r].pc = "fetch")
                => crawls'[r].current_url \notin crawls[r].fetched]_vars

\* the fetch of crawl r raised: timeout or connection failure
C26_Raised(r) == FetchFail(r)

\* the fetch of crawl r returned a response with a status outside 2xx
C26_NonOk(r) ==
    \E status \in Statuses \ (200..299), links \in SeqsUpTo(StatusHrefs, MaxLinks) :
        FetchResponse(r, status, links)

\* the URL fetched goes to broken_links, not to the page list, and the loop goes on
C26_Broken(r) ==
    LET c == crawls[r]
        d == crawls'[r]
    IN  /\ d.broken_links = Append(c.broken_links, c.current_url)
        /\ d.pages = c.pages
        /\ d.pc = "loop"

(* C26: a URL whose fetch times out, fails to connect, or returns a        *)
(* non-2xx HTTP status is recorded in broken_links and produces no entry   *)
(* in the page list, and the crawl continues.                              *)
C26_FailedFetchIsBroken ==
    [][\A r \in DOMAIN crawls :
          (C26_Raised(r) \/ C26_NonOk(r)) => C26_Broken(r)]_vars

(* C26 as the code has it: a fetch that raises (timeout, connection        *)
(* failure) appends the URL to broken_links and nothing to the page list,  *)
(* and the crawl continues; a response with a non-2xx status is analysed   *)
(* like any other: the URL is appended to the page list with that          *)
(* status_code and marked crawled, and the crawl continues; it reaches     *)
(* broken_links only when resolving one of its links raises.               *)
C26_RaisedIsBrokenNonOkIsPage ==
    [][\A r \in DOMAIN crawls :
          LET c == crawls[r]
              d == crawls'[r]
          IN  /\ C26_Raised(r) => C26_Broken(r)
              /\ C26_NonOk(r) =>
                    /\ d.pages = Append(c.pages, c.current_url)
                    /\ d.status_codes[Len(d.status_codes)] \notin 200..299
                    /\ Len(d.status_codes) = Len(d.pages)
                    /\ c.current_url \in d.crawled
                    /\ d.pc \in {"sleep", "loop"}
                    /\ d.pc = "sleep" => d.broken_links = c.broken_links
                    /\ d.pc = "loop" =>
                          d.broken_links = Append(c.broken_links, c.current_url)]_vars

(* a returned crawl with a page that answered 404 in the page list and not *)
(* in broken_links, and a URL whose fetch raised in broken_links           *)
C26_Witness ==
    \E r \in DOMAIN crawls :
        LET c == crawls[r] IN
        /\ c.pc = "done"
        /\ \E i \in DOMAIN c.pages :
              /\ c.status_codes[i] = 404
              /\ c.pages[i] \notin Urls(c.broken_links)
        /\ \E u \in Urls(c.broken_links) : u \notin Urls(c.pages)

\* the loop test of crawl c is false: frontier empty or max_pages URLs visited
C27_Stops(c) ==
    c.to_crawl = {} \/ Cardinality(c.crawled) = engines[c.engine].max_pages

C27_Step(r) ==
    LET c == crawls[r]
        d == crawls'[r]
    IN  /\ (c.pc = "loop" /\ d.pc = "done") => C27_Stops(c)
        /\ (c.pc = "loop" /\ C27_Stops(c)) => (d.pc = "done" \/ d = c)
        /\ Cardinality(d.crawled) <= engines[c.engine].max_pages

(* C27: if every fetch returns (success or failure) and every page carries *)
(* finitely many links, crawl_website eventually returns, for any          *)
(* max_pages and any pattern of failing pages; the loop stops exactly when *)
(* the frontier is empty or the number of visited pages has reached        *)
(* max_pages.                                                              *)
C27_CrawlTerminates ==
    /\ <>(\A r \in DOMAIN crawls : crawls[r].pc = "done")
    /\ [][\A r \in DOMAIN crawls : C27_Step(r)]_vars

(* a crawl stopped by the cap below the number of URLs of the site, with   *)
(* uncrawled URLs left in the frontier and two failed fetches on the way   *)
C27_Witness ==
    \E r \in DOMAIN crawls :
        LET c == crawls[r] IN
        /\ c.pc = "done"
        /\ c.failures >= 2
        /\ Cardinality(c.crawled) = MaxPagesOf(c)
        /\ c.to_crawl \ c.crawled # {}

(* C28: the politeness delay is applied exactly once per successfully      *)
(* processed page, after its links have been routed and before the next    *)
(* URL is popped, never for a skipped URL, a failed page or a link; hence  *)
(* in any crawl the number of delays equals the number of pages in the     *)
(* SiteMap.                                                                *)
C28_OneDelayPerPage ==
    /\ [](\A r \in DOMAIN crawls :
            LET c == crawls[r] IN
            /\ c.pc = "sleep" => c.delays + 1 = Len(c.pages)
            /\ c.pc \in {"loop", "fetch", "done"} => c.delays = Len(c.pages)
            /\ c.pc = "done" => c.delays = Len(c.sitemap.pages))
    /\ [][\A r \in DOMAIN crawls :
            crawls'[r].delays # crawls[r].delays =>
                /\ crawls[r].pc = "sleep"
                /\ crawls'[r].pc = "loop"
                /\ crawls'[r].delays = crawls[r].delays + 1]_vars

(* C38: two overlapping crawl_website invocations, also on one             *)
(* CrawlerService, do not interfere: each returns the SiteMap it returns   *)
(* when run alone.  On a site that answers every request a crawl run alone *)
(* has no broken link, so no invocation ever has one.                      *)
C38_NoInterference ==
    \A r \in DOMAIN crawls : crawls[r].broken_links = <<>>

----------------------------------------------------------------------------
(* Claims on the session pool *)

Holding(p) == probes[p].pc = "body"

(* C4: under any interleaving of get_driver, release_driver, close_driver  *)
(* and close_all, the number of live browser sessions (created and not yet *)
(* torn down) never exceeds max_drivers.                                   *)
C4_LiveWithinCeiling == Cardinality(live) <= manager.max_drivers

C5_Step(p) ==
    LET pr == probes[p]
        after == probes'[p]
        idle == manager.available_drivers # <<>>
        room == Len(manager.driver_pool) < manager.max_drivers
    IN  /\ (pr.pc = "idle" /\ after.pc # "idle") =>
              IF idle
              THEN /\ after.pc = "body"
                   /\ after.driver = Last(manager.available_drivers)
                   /\ manager'.available_drivers = Front(manager.available_drivers)
                   /\ manager'.driver_pool = manager.driver_pool
                   /\ live' = live
              ELSE IF room
              THEN \/ /\ after.pc = "body"
                      /\ after.driver \notin live
                      /\ live' = live \cup {after.driver}
                      /\ manager'.driver_pool =
                             Append(manager.driver_pool, after.driver)
                   \/ /\ after.pc = "returned" /\ after.raised /\ ~after.got
                      /\ manager' = manager
                      /\ live' = live
              ELSE /\ after.pc = "waiting"
                   /\ manager' = manager
                   /\ live' = live
        /\ (pr.pc = "waiting" /\ after.pc # "waiting") =>
              /\ idle
              /\ after.pc = "body"
              /\ after.driver = Last(manager.available_drivers)
              /\ manager'.driver_pool = manager.driver_pool
              /\ live' = live

(* C5: get_driver returns an idle session when there is one, creating      *)
(* nothing; otherwise creates one (or raises) when fewer than max_drivers  *)
(* are tracked; otherwise the caller stays suspended, creating nothing,    *)
(* and returns only with a session that release_driver put into the idle   *)
(* list: the idle list grows by release_driver alone.                      *)
C5_AcquireRule ==
    [][ /\ \A p \in DOMAIN probes : C5_Step(p)
        /\ Len(manager'.available_drivers) > Len(manager.available_drivers) =>
              \E q \in DOMAIN probes :
                  /\ probes[q].pc = "body" /\ probes'[q].pc = "returned"
                  /\ probes'[q].releases = probes[q].releases + 1
                  /\ manager'.available_drivers =
                         Append(manager.available_drivers, probes[q].driver)
      ]_vars

(* a caller that was suspended at the ceiling holds the session a release  *)
(* handed back, and the pool is at its ceiling again                       *)
C5_Witness ==
    /\ manager.max_drivers >= 1
    /\ Len(manager.driver_pool) = manager.max_drivers
    /\ manager.available_drivers = <<>>
    /\ \E p \in DOMAIN probes : Holding(p) /\ probes[p].waited
    /\ \E q \in DOMAIN probes : probes[q].pc = "returned" /\ probes[q].releases = 1

(* C6: no session is borrowed by two probes at once, and a borrowed        *)
(* session is not in the idle list at the same time.                       *)
C6_ExclusiveBorrow ==
    /\ \A p, q \in DOMAIN probes :
          (p # q /\ Holding(p) /\ Holding(q)) => probes[p].driver # probes[q].driver
    /\ \A p \in DOMAIN probes :
          Holding(p) => probes[p].driver \notin Range(manager.available_drivers)

(* two callers were suspended together; one of them now holds the session  *)
(* that was released and the other is still suspended                      *)
C6_Witness ==
    \E p, q \in DOMAIN probes :
        /\ p # q
        /\ Holding(p) /\ probes[p].waited
        /\ probes[q].pc = "waiting"

(* C7: once close_all has run, get_driver never returns a session that     *)
(* close_all tore down, neither one that was idle at the shutdown nor one  *)
(* that was borrowed then and handed to release_driver afterwards.         *)
C7_NoTornDownSession ==
    [][ \A p \in DOMAIN probes :
            (probes[p].pc \in {"idle", "waiting"} /\ probes'[p].pc = "body")
                => probes'[p].driver \notin torn_down
      ]_vars

(* a probe still holds a session close_all tore down while another holds a *)
(* tracked session, which it can only have obtained after that close_all   *)
C7_Witness ==
    \E p, q \in DOMAIN probes :
        /\ Holding(p) /\ probes[p].driver \in torn_down
        /\ Holding(q) /\ probes[q].driver \in Range(manager.driver_pool)
        /\ \E r \in DOMAIN probes : probes[r].pc = "returned" /\ probes[r].releases = 1

(* C8: a probe call that obtained a session hands it to release_driver     *)
(* exactly once before it returns, whether its body completed or raised,   *)
(* and holds no session once it has returned.                              *)
C8_ReleasedExactlyOnce ==
    \A p \in DOMAIN probes :
        LET pr == probes[p] IN
        /\ pr.releases <= 1
        /\ pr.pc = "body" => (pr.got /\ pr.driver # NoDriver /\ pr.releases = 0)
        /\ pr.pc = "returned" =>
              /\ pr.driver = NoDriver
              /\ pr.got => pr.releases = 1
              /\ ~pr.got => pr.releases = 0

(* a button, a form and a navigation probe have all returned, some after a *)
(* raising body and some after a completed one                             *)
C8_Witness ==
    /\ {probes[p].kind : p \in DOMAIN probes} = Range(ProbeKinds)
    /\ \A p \in DOMAIN probes :
          probes[p].pc = "returned" /\ probes[p].got /\ probes[p].releases = 1
    /\ \E p \in DOMAIN probes : probes[p].raised
    /\ \E p \in DOMAIN probes : ~probes[p].raised

(* C12: when creating a session raises inside get_driver or navigating to *)
(* the top-level url fails, test_all_buttons and test_all_forms end by     *)
(* returning their list of outcomes; the exception does not reach the      *)
(* caller.                                                                 *)
C12_ProbeNeverPropagates ==
    \A p \in DOMAIN probes :
        (probes[p].kind \in {"buttons", "forms"} /\ probes[p].pc = "returned")
            => ~probes[p].propagated

\* probe p ends and one clearing call of release_driver raises
C19_Step(p) ==
    \E raised \in BOOLEAN, out \in QuitOutcomes :
        ProbeReturn(p, raised, FALSE, out.quit_ok, out.survives)

(* C19: when a sanitization step of release_driver fails, the session is   *)
(* not put into the idle list and it is removed from the tracked sessions  *)
(* of the pool, whatever the outcome of the teardown call.                 *)
C19_FailedReleaseDiscards ==
    [][\A p \in DOMAIN probes :
          C19_Step(p) =>
              /\ probes[p].driver \notin Range(manager'.available_drivers)
              /\ probes[p].driver \notin Range(manager'.driver_pool)]_vars

\* a close_all call
C20_Step == \E survivors \in SUBSET live : CloseAll(survivors)

\* nothing is tracked or idle and no browser engine runs
ShutDown ==
    /\ manager.driver_pool = <<>>
    /\ manager.available_drivers = <<>>
    /\ ~playwright.running

(* C20: close_all leaves the tracked list and the idle list empty and the  *)
(* shared browser engine released, every tracked session on which quit()   *)
(* returned is gone, and it is idempotent: a close_all on a manager that   *)
(* is shut down leaves the same state and tears down or releases nothing   *)
(* again.                                                                  *)
C20_CloseAllIdempotent ==
    [][C20_Step =>
          /\ ShutDown'
          /\ ShutDown => /\ manager' = manager
                         /\ live' = live
                         /\ playwright'.close_calls = playwright.close_calls]_vars

\* the sessions some probe holds
Borrowed == {probes[p].driver : p \in {q \in DOMAIN probes : Holding(q)}}

(* C32: a session discarded after a fault stops counting against the       *)
(* ceiling, whether or not the teardown call succeeds: every session that  *)
(* counts in driver_pool is idle or held by a probe, so get_driver can     *)
(* create sessions until max_drivers usable sessions exist.                *)
C32_DiscardFreesCapacity ==
    Range(manager.driver_pool) \subseteq
        (Range(manager.available_drivers) \cup Borrowed)

(* C33: no starvation at the ceiling. When every probe holding a session   *)
(* ends and hands it to release_driver, every get_driver caller suspended  *)
(* at a ceiling of at least one session eventually obtains a session,      *)
(* whether the handed-back sessions become idle or are discarded.          *)
Suspended(p) == probes[p].pc = "waiting" /\ manager.max_drivers >= 1

C33_NoStarvation ==
    \A p \in 1..NumProbes : Suspended(p) ~> (probes[p].pc # "waiting")

(* C34: every idle session has been fully sanitized since its last use: no *)
(* cookie and no stored item of a previous probe is left in it, so         *)
(* get_driver never hands out a reused session that still carries state.   *)
C34_IdleSanitized ==
    \A d \in Range(manager.available_drivers) : browsing[d].stored = {}

(* C35: after any sequence of get_driver, release_driver, close_driver and *)
(* close_all calls every idle session is tracked, no session occurs twice  *)
(* in driver_pool or in available_drivers, and no idle session is borrowed *)
(* by a probe.                                                             *)
C35_PoolStructure ==
    /\ Range(manager.available_drivers) \subseteq Range(manager.driver_pool)
    /\ NoDuplicates(manager.driver_pool)
    /\ NoDuplicates(manager.available_drivers)
    /\ Range(manager.available_drivers) \cap Borrowed = {}

----------------------------------------------------------------------------
(* Claims on the button probe *)

(* C13: an exception at any step of testing one candidate (reading its     *)
(* visibility or text, scrolling, clicking, reading the URL) yields a      *)
(* failed InteractionResult for that candidate (success false, error       *)
(* message set), and every remaining candidate of the selector and of the  *)
(* later selectors is still tested.                                        *)
C13_FaultYieldsFailedResult ==
    LET b == button_test IN
    b # <<>> =>
        /\ \A k \in DOMAIN b.met :
              b.met[k].fault # "none" =>
                  \E j \in DOMAIN b.results :
                      /\ b.results[j].element_selector = b.met[k].candidate
                      /\ ~b.results[j].success
                      /\ b.results[j].error_message
        /\ b.pc = "returned" =>
              \A sel \in DOMAIN b.found : \A i \in 1..b.found[sel] :
                  \E k \in DOMAIN b.met : b.met[k].candidate = <<sel, i>>

(* C14: for every candidate clicked without an exception, success is true  *)
(* exactly when the URL after the click differs from the URL before it or  *)
(* the click made a modal, overlay or dialog visible; a click without      *)
(* effect reports success false, wherever it stands in the probe.          *)
C14_SuccessIffEffect ==
    LET b == button_test IN
    b # <<>> =>
        \A j \in DOMAIN b.results : \A k \in DOMAIN b.met :
            (b.met[k].candidate = b.results[j].element_selector
             /\ ~b.results[j].error_message)
                => (b.results[j].success <=>
                        (b.met[k].url_changed \/ b.met[k].modal_opened))

----------------------------------------------------------------------------
(* Claims on the navigation probe *)

\* the evaluation of the edge met as m failed
EdgeFailed(m) == m.stale \/ m.fault # "none" \/ m.path_fault # "none"

\* navigation_paths holds an entry of edge e, with an error or of any kind
Recorded(e, with_error) ==
    \E i \in DOMAIN nav_test.navigation_paths :
        /\ nav_test.navigation_paths[i].edge = e
        /\ with_error => nav_test.navigation_paths[i].error

(* C22: a failure on one navigation edge (inspecting the link element, or  *)
(* navigating to and classifying its target) is recorded as that edge's    *)
(* entry with an error in navigation_paths, and the remaining edges among  *)
(* the first 5 navigation links are still evaluated and recorded.          *)
C22_EdgeFailureRecorded ==
    nav_test # <<>> =>
        \A k \in DOMAIN nav_test.met :
            LET m == nav_test.met[k] IN
            /\ EdgeFailed(m) => Recorded(m.edge, TRUE)
            /\ (m.usable /\ m.http) => Recorded(m.edge, FALSE)

\* a link to a URL with one of the conversion keywords is on the page
HasConversionLink(hrefs) == \E h \in hrefs : AnyIn(Lower(h), ConversionKeywords)

C36_Estimate(e, max_depth) ==
    IF e.is_conversion_page \/ max_depth <= 0 THEN 0
    ELSE IF HasConversionLink(e.hrefs) THEN 1
    ELSE max_depth

(* C36: for every successfully evaluated edge clicks_to_convert is 0 when  *)
(* the target is a conversion page or max_depth <= 0, 1 when it is not,    *)
(* max_depth > 0 and a conversion-keyword link is on the page, max_depth   *)
(* otherwise; and at most 5 edges are evaluated per probe.                 *)
C36_ClicksToConvert ==
    /\ Len(nav_test.navigation_paths) <= NavLimit
    /\ \A i \in DOMAIN nav_test.navigation_paths :
          LET e == nav_test.navigation_paths[i] IN
          ~e.error => e.clicks_to_convert = C36_Estimate(e, nav_test.max_depth)

----------------------------------------------------------------------------
(* Claims on the form probe *)

\* no webdriver call of the probe raised on this form
HealthyForm(form) ==
    /\ form.scroll_ok
    /\ form.submit.fault = "none"
    /\ \A i \in DOMAIN form.inputs : form.inputs[i].fault = "none"

(* C15: on a displayed form without a submit control the form probe clicks *)
(* nothing and reports submission_successful = false, adding no submission *)
(* error; when the form's only field is a displayed, enabled, required     *)
(* email field it reports fields_tested = 1 and no validation error.       *)
C15_NoSubmitControl ==
    (form_test # <<>> /\ form_test.pc = "returned") =>
        LET form == form_test.form
            res == form_test.call.result
        IN  form.submit.controls = 0 =>
               /\ ~form_test.call.clicked
               /\ ~res.submission_successful
               /\ HealthyForm(form) =>
                     "Submission error" \notin Range(res.validation_errors)
               /\ (/\ HealthyForm(form)
                   /\ Len(form.inputs) = 1
                   /\ form.inputs[1].tag = "input"
                   /\ form.inputs[1].type = "email"
                   /\ form.inputs[1].required
                   /\ form.inputs[1].usable)
                     => /\ res.fields_tested = 1
                        /\ res.validation_errors = <<>>

\* the probe returned for the form with one required email field and no submit
C15_Witness ==
    /\ form_test # <<>>
    /\ form_test.pc = "returned"
    /\ form_test.form =
          Form(TRUE, <<Field("input", "email", "", TRUE, TRUE, "none", 0)>>,
               Submit(0, "none", "none"))
    /\ form_test.call.result = FormTestResult(1, 1, FALSE, <<>>)

\* the entries of validation_errors the per-field handler wrote
FieldErrors(res) ==
    {i \in DOMAIN res.validation_errors :
        StartsWith(res.validation_errors[i], "Field error")}

\* the probe reached the fields and no visibility test raised
FieldsReached(form) ==
    /\ form.scroll_ok
    /\ \A i \in DOMAIN form.inputs : form.inputs[i].fault # "visibility"

\* the displayed and enabled fields of the form whose fill raises
RaisingFields(form) ==
    {i \in DOMAIN form.inputs :
        form.inputs[i].usable /\ form.inputs[i].fault = "fill"}

(* the displayed and enabled fields that take a value: any input or        *)
(* textarea, and a select with at least two options                        *)
FillableFields(form) ==
    {i \in DOMAIN form.inputs :
        /\ form.inputs[i].usable
        /\ form.inputs[i].fault = "none"
        /\ form.inputs[i].tag = "select" => form.inputs[i].options >= 2}

(* C37: in every FormTestResult 0 <= fields_successful <= fields_tested    *)
(* and fields_tested is fields_successful plus the number of 'Field error' *)
(* entries; a field whose fill raises counts as attempted only, and the    *)
(* fields after it and the submission are still attempted; invisible or    *)
(* disabled fields and selects with fewer than two options count in        *)
(* neither.                                                                *)
C37_FormCounters ==
    (form_test # <<>> /\ form_test.pc = "returned") =>
        LET form == form_test.form
            res == form_test.call.result
        IN  /\ 0 <= res.fields_successful
            /\ res.fields_successful <= res.fields_tested
            /\ res.fields_tested =
                  res.fields_successful + Cardinality(FieldErrors(res))
            /\ FieldsReached(form) =>
                  /\ Cardinality(FieldErrors(res)) = Cardinality(RaisingFields(form))
                  /\ res.fields_successful = Cardinality(FillableFields(form))
                  /\ (form.submit.controls > 0 /\ form.submit.fault # "lookup")
                        => form_test.call.clicked

(* the probe returned on a form whose first field raised at the fill, whose *)
(* second is a select with one option, and whose submit was clicked         *)
C37_Witness ==
    /\ form_test # <<>>
    /\ form_test.pc = "returned"
    /\ form_test.form =
          Form(TRUE, <<Field("input", "text", "", TRUE, TRUE, "fill", 0),
                       Field("select", "", "", FALSE, TRUE, "none", 1)>>,
               Submit(1, "none", "url_changed"))
    /\ form_test.call.clicked
    /\ form_test.call.result = FormTestResult(1, 0, TRUE, <<"Field error">>)

----------------------------------------------------------------------------
(* Claims on the page analysis *)

\* the rules in their priority order: where the keywords are looked for
ClassificationRules ==
    << [label |-> "landing", text |-> "url", keywords |-> {"landing", "lp", "campaign"}],
       [label |-> "product", text |-> "url", keywords |-> {"product", "item", "/p/", "shop"}],
       [label |-> "checkout", text |-> "url",
        keywords |-> {"checkout", "cart", "payment", "billing"}],
       [label |-> "confirmation", text |-> "url",
        keywords |-> {"thank", "confirmation", "success", "complete"}],
       [label |-> "contact", text |-> "url", keywords |-> {"contact", "support", "help"}],
       [label |-> "about", text |-> "url", keywords |-> {"about", "team", "company"}],
       [label |-> "content", text |-> "url", keywords |-> {"blog", "news", "article", "post"}],
       [label |-> "product", text |-> "content", keywords |-> {"add to cart", "buy now"}],
       [label |-> "signup", text |-> "content", keywords |-> {"sign up", "get started"}] >>

PageTypes ==
    {"landing", "product", "checkout", "confirmation", "contact", "about",
     "content", "signup", "general"}

RuleMatches(rule, a) ==
    AnyIn(Lower(IF rule.text = "url" THEN a.url ELSE a.content), rule.keywords)

(* C16: _classify_page_type returns the label of the first rule that       *)
(* matches, in the order landing, product, checkout, confirmation,         *)
(* contact, about, content (by URL), product, signup (by page text), and   *)
(* general when none does; a URL rule wins over every content rule and the *)
(* result is one of the nine page types.                                   *)
C16_FirstMatchWins ==
    (analysis # <<>> /\ analysis.pc = "returned") =>
        LET matching == {i \in DOMAIN ClassificationRules :
                            RuleMatches(ClassificationRules[i], analysis)}
        IN  /\ analysis.page_type \in PageTypes
            /\ matching = {} => analysis.page_type = "general"
            /\ matching # {} =>
                  \E i \in matching :
                      /\ \A j \in matching : i <= j
                      /\ analysis.page_type = ClassificationRules[i].label
            /\ (\E i \in matching : ClassificationRules[i].text = "url") =>
                  \E i \in matching :
                      /\ ClassificationRules[i].text = "url"
                      /\ analysis.page_type = ClassificationRules[i].label

\* https://x.com/landing/promo with the text "Add to Cart" is a landing page
C16_Witness ==
    /\ analysis # <<>>
    /\ analysis.pc = "returned"
    /\ analysis.url = "https://x.com/landing/promo"
    /\ analysis.content = "Add to Cart"
    /\ analysis.page_type = "landing"

ErrorIf(condition, error) == IF condition THEN {error} ELSE {}

\* the errors whose condition holds for the document
ExpectedErrors(doc) ==
    LET empty_src == Cardinality({i \in DOMAIN doc.images : doc.images[i] = ""}) IN
    ErrorIf(doc.status >= 400, PageError("HTTP error", doc.status))
    \cup ErrorIf(doc.title \in {Absent, Text(""), Text("  ")},
                 PageError("Missing or empty title tag", 0))
    \cup ErrorIf(doc.description \in
                    {NoMeta, Meta(Absent), Meta(Text("")), Meta(Text(" "))},
                 PageError("Missing meta description", 0))
    \cup ErrorIf(doc.h1 = 0, PageError("No H1 tags found", 0))
    \cup ErrorIf(doc.h1 > 1, PageError("Multiple H1 tags found", doc.h1))
    \cup ErrorIf(~doc.viewport, PageError("Missing viewport meta tag", 0))
    \cup ErrorIf(empty_src >= 1, PageError("images with empty src", empty_src))

Timeless(record) == [record EXCEPT !.load_time = 0]

IsButtonElement(el) ==
    \/ el.tag = "button"
    \/ el.tag = "input" /\ el.type \in {"submit", "button"}

(* C31: the buttons list of a page record holds one descriptor for every   *)
(* <button> element, every <input type="submit"> and every                 *)
(* <input type="button"> of the document, in document order, with text     *)
(* falling back to the value attribute when the element has no text.       *)
C31_ButtonsComplete ==
    (analysis # <<>> /\ analysis.pc = "extracted") =>
        LET expected == SelectSeq(analysis.elements, IsButtonElement)
        IN  analysis.buttons = [i \in DOMAIN expected |-> ButtonInfo(expected[i])]

(* C39: no keyword of the URL rules is dead: for every page type and every *)
(* keyword listed for it some URL containing the keyword gets that page    *)
(* type.  The URL made of a keyword-free host and the keyword alone is     *)
(* such a URL unless the keyword is always pre-empted.                     *)
C39_NoDeadKeyword ==
    (analysis # <<>> /\ analysis.pc = "returned") =>
        \A i \in DOMAIN UrlRules : \A k \in UrlRules[i].keywords :
            analysis.url = KeywordHost \o k
                => analysis.page_type = UrlRules[i].page_type

----------------------------------------------------------------------------
(* Claims on the robots gate *)

(* C9: _check_robots_txt returns allowed = true whenever its fetch of      *)
(* robots.txt raises or answers a status other than 200, and every later   *)
(* query for that domain returns true as well.                             *)
C9_RobotsFailOpen ==
    \A i \in DOMAIN robots_log :
        robots_log[i].failed =>
            \A j \in i..Len(robots_log) :
                robots_log[j].domain = robots_log[i].domain => robots_log[j].allowed

(* a failed fetch for a domain followed by a repeated query for it, beside *)
(* a domain whose robots.txt disallows everything                          *)
C9_Witness ==
    /\ \E i, j \in DOMAIN robots_log :
          /\ i < j
          /\ robots_log[i].failed
          /\ robots_log[j].domain = robots_log[i].domain
          /\ ~robots_log[j].fetched
    /\ \E k \in DOMAIN robots_log : ~robots_log[k].allowed

\* the domain of the query that has just returned
C29_Queried == robots_log'[Len(robots_log')].domain

(* C29: the robots result is memoized per domain for the lifetime of the   *)
(* CrawlerService: after the first _check_robots_txt(domain) returned,     *)
(* whichever path it took, every later query for the domain returns the    *)
(* same value and issues no fetch, and the only state a query changes is   *)
(* the cache entry of that domain.                                         *)
C29_RobotsMemoized ==
    /\ [](\A i, j \in DOMAIN robots_log :
            (i < j /\ robots_log[i].domain = robots_log[j].domain) =>
                /\ robots_log[j].allowed = robots_log[i].allowed
                /\ ~robots_log[j].fetched)
    /\ [][robots_log' # robots_log =>
            LET before == engines[1].robots_cache
                after == engines'[1].robots_cache
            IN  /\ engines'[1].max_pages = engines[1].max_pages
                /\ DOMAIN after = DOMAIN before \cup {C29_Queried}
                /\ \A d \in DOMAIN before : after[d] = before[d]
                /\ after[C29_Queried] = robots_log'[Len(robots_log')].allowed
                /\ UNCHANGED <<crawls, poolVars, taskVars, testVars>>]_vars

(* a domain answered from the cache after each of the three paths: a       *)
(* parsed disallow for one domain, a failed fetch for the other            *)
C29_Witness ==
    /\ Len(robots_log) = 4
    /\ robots_log[1].fetched /\ ~robots_log[1].failed /\ ~robots_log[1].allowed
    /\ robots_log[2].fetched /\ robots_log[2].failed
    /\ robots_log[2].domain # robots_log[1].domain
    /\ ~robots_log[3].fetched /\ robots_log[3].domain = robots_log[1].domain
    /\ ~robots_log[4].fetched /\ robots_log[4].domain = robots_log[2].domain

\* line i of the body is a user-agent line naming '*' or an agent with 'funnel'
C30_Applies(body, i) ==
    LET line == parse_robots_line(body[i]) IN
    /\ line.kind = "user-agent"
    /\ line.value = "*" \/ Contains(line.value, "funnel")

(* some 'disallow: /' line stands under a most recent preceding user-agent *)
(* line that applies                                                       *)
C30_Disallowed(body) ==
    \E i \in DOMAIN body :
        /\ parse_robots_line(body[i]) = DisLine("/")
        /\ \E j \in 1..(i - 1) :
              /\ C30_Applies(body, j)
              /\ \A k \in (j + 1)..(i - 1) :
                    parse_robots_line(body[k]).kind # "user-agent"

(* C30: for a robots.txt fetched with status 200 the result is disallowed  *)
(* iff some 'disallow: /' line occurs while the most recent preceding      *)
(* 'user-agent:' line names '*' or an agent containing 'funnel', in any    *)
(* letter case; a user-agent line replaces the applicability of the one    *)
(* before, disallow lines before any user-agent line or with another path  *)
(* have no effect, and no later line clears a disallow-all.                *)
C30_RobotsLineScan ==
    \A i \in DOMAIN robots_log :
        robots_log[i].allowed = ~C30_Disallowed(robots_log[i].body)

(* a body of three lines: an agent with 'Funnel' in capitals, a disallow   *)
(* of everything, and a later user-agent line that does not apply          *)
C30_Witness ==
    \E i \in DOMAIN robots_log :
        /\ robots_log[i].body =
              <<"USER-AGENT: MyFunnelBot", "  disallow:/ ", "user-agent: googlebot">>
        /\ ~robots_log[i].allowed

(* what a crawl shows apart from the robots answer *)
Observable(c) ==
    [pc |-> c.pc, to_crawl |-> c.to_crawl, crawled |-> c.crawled,
     pages |-> c.pages, broken_links |-> c.broken_links,
     external_links |-> c.external_links, fetched |-> c.fetched,
     sitemap |-> c.sitemap]

(* C10: the robots policy is advisory: the robots check of the start       *)
(* domain comes before the first page fetch, and two crawls of the same    *)
(* site fetch the same URLs and return the same SiteMap whether the check  *)
(* answered allowed or disallowed.                                         *)
C10_RobotsAdvisory ==
    /\ \A r \in DOMAIN crawls :
          crawls[r].fetched # {} =>
              \E i \in DOMAIN robots_log : robots_log[i].domain = crawls[r].domain
    /\ \A r1, r2 \in DOMAIN crawls :
          Observable(crawls[r1]) = Observable(crawls[r2])

(* both crawls returned pages, one allowed and one disallowed by robots *)
C10_Witness ==
    /\ DOMAIN crawls = {1, 2}
    /\ crawls[1].robots_allowed /\ ~crawls[2].robots_allowed
    /\ crawls[1].pc = "done" /\ crawls[2].pc = "done"
    /\ Len(crawls[2].sitemap.pages) >= 2
    /\ crawls[2].sitemap.broken_links # <<>>

----------------------------------------------------------------------------
(* Claims on the audit tasks *)

(* C40: retry_failed_audits requeues an audit at most 3 times and its      *)
(* retry_count never exceeds 3, over any runs, failures and retry sweeps.  *)
C40_RetryBound ==
    audits # <<>> =>
        \A a \in AuditIds :
            /\ audits.rows[a].retry_count <= RetryLimit
            /\ audits.requeues[a] <= RetryLimit

====
